---- MODULE Spec2Model ----
(***************************************************************************)
(* Model of the natural-language query core of fintech-ai-platform:        *)
(*   src/src/ai/hf_api.py          HuggingFaceAPI   (the RemoteReasoner)   *)
(*   src/src/ai/nl_to_sql.py       NaturalLanguageSQL (synthesizer, guard, *)
(*                                 executor, process_query)                *)
(*   src/src/ai/anomaly_detector.py, src/src/ai/analysis_engine.py         *)
(*                                 (the other callers of the executor)     *)
(*                                                                         *)
(* Time is counted in milliseconds since an epoch that starts a calendar   *)
(* day; datetime.now() is the variable now.  SQL text and query text are   *)
(* TLA+ strings, read one character at a time with SubSeq.                 *)
(***************************************************************************)
EXTENDS Integers, Sequences, FiniteSets, TLC

VARIABLES
    requests_today,        \* HuggingFaceAPI.requests_today
    total_requests_month,  \* HuggingFaceAPI.total_requests_month
    last_request_time,     \* HuggingFaceAPI.last_request_time (NoTime = None)
    last_reset_date,       \* HuggingFaceAPI.last_reset_date (a day number)
    cache,                 \* HuggingFaceAPI.cache: set of [key, text, time]
    now,                   \* the wall clock, in milliseconds
    last,                  \* what the latest operation was given and did
    ncalls,                \* operations performed so far (bounded)
    nticks,                \* clock advances performed so far (bounded)
    sql_text,              \* the text _validate_sql is given
    parse_outcome,         \* what sqlparse.parse does with that text
    verdict,               \* what _validate_sql returned for it
    answer,                \* what the latest query-layer operation was given and did
    open_connections,      \* database connections opened and not closed
    nqueries,              \* query-layer operations performed so far (bounded)
    collections,           \* FinancialVectorStore: the records of its collections
    finding,               \* what the latest classifier or index operation was given and did
    nindex,                \* index operations performed so far (bounded)
    callers,               \* where each concurrent caller of generate_text is
    issued                 \* the requests posted: how many before, and when since

hfVars == <<requests_today, total_requests_month, last_request_time,
            last_reset_date, cache>>
guardVars == <<sql_text, parse_outcome, verdict>>
vars == <<requests_today, total_requests_month, last_request_time,
          last_reset_date, cache, now, last, ncalls, nticks,
          sql_text, parse_outcome, verdict, answer, open_connections, nqueries,
          collections, finding, nindex, callers, issued>>
nlVars == <<answer, open_connections, nqueries>>
indexVars == <<collections, finding, nindex>>
callerVars == <<callers, issued>>

(***************************************************************************)
(* Program constants.                                                      *)
(***************************************************************************)
DailyLimit == 1000
MonthlyLimit == 30000
MinSpacingMs == 1000
LoadingWaitMs == 20000
RequestTimeoutMs == 30000
CacheTtlMs == 60 * 60 * 1000
DayMs == 24 * 60 * 60 * 1000
PromptKeyLen == 100
Temperature == "0.1"

(***************************************************************************)
(* Bounds of the model.                                                    *)
(***************************************************************************)
MaxCalls == 2
MaxTicks == 1
NetLatencyMs == 250
ShortPauseMs == 400

NoTime == 0 - 1
None == [none |-> TRUE, text |-> ""]
Some(t) == [none |-> FALSE, text |-> t]

\* datetime.now().date(): the day number of an instant
DateOf(t) == t \div DayMs

(***************************************************************************)
(* Text.  A string is read one character at a time; the operators below    *)
(* are the str and re calls the code makes.                                *)
(***************************************************************************)
CharAt(s, i) == SubSeq(s, i, i)
UpperLetters == "ABCDEFGHIJKLMNOPQRSTUVWXYZ"
LowerLetters == "abcdefghijklmnopqrstuvwxyz"
Digits == "0123456789"
CharsOf(s) == {CharAt(s, i) : i \in 1..Len(s)}
IndexIn(s, c) == CHOOSE i \in 1..Len(s) : CharAt(s, i) = c
Whitespace == {" ", "\n", "\t", "\r"}
UpperSet == CharsOf(UpperLetters)
LowerSet == CharsOf(LowerLetters)
DigitSet == CharsOf(Digits)
IsLetter(c) == c \in UpperSet \cup LowerSet
IsDigit(c) == c \in DigitSet
\* \w of the re module
IsWordChar(c) == IsLetter(c) \/ IsDigit(c) \/ c = "_"

LowerChar(c) ==
    IF c \in UpperSet
    THEN CharAt(LowerLetters, IndexIn(UpperLetters, c)) ELSE c
UpperChar(c) ==
    IF c \in LowerSet
    THEN CharAt(UpperLetters, IndexIn(LowerLetters, c)) ELSE c

\* every character of s mapped, a half of the text at a time
RECURSIVE MapChars(_, _)
MapChars(s, upper) ==
    IF Len(s) = 0 THEN ""
    ELSE IF Len(s) = 1 THEN (IF upper THEN UpperChar(s) ELSE LowerChar(s))
    ELSE MapChars(SubSeq(s, 1, Len(s) \div 2), upper)
         \o MapChars(SubSeq(s, Len(s) \div 2 + 1, Len(s)), upper)
\* str.lower(), str.upper()
Lower(s) == MapChars(s, FALSE)
Upper(s) == MapChars(s, TRUE)

\* str.lstrip(), str.rstrip(), str.strip() of whitespace
LStrip(s) ==
    LET kept == {i \in 1..Len(s) : CharAt(s, i) \notin Whitespace}
    IN  IF kept = {} THEN ""
        ELSE SubSeq(s, CHOOSE i \in kept : \A j \in kept : i <= j, Len(s))
RStripChars(s, chars) ==
    LET kept == {i \in 1..Len(s) : CharAt(s, i) \notin chars}
    IN  IF kept = {} THEN ""
        ELSE SubSeq(s, 1, CHOOSE i \in kept : \A j \in kept : i >= j)
Strip(s) == RStripChars(LStrip(s), Whitespace)

\* str.startswith, and the in operator on strings
StartsWith(s, p) == Len(s) >= Len(p) /\ SubSeq(s, 1, Len(p)) = p
OccursAt(s, p, i) == i + Len(p) - 1 <= Len(s) /\ SubSeq(s, i, i + Len(p) - 1) = p
Contains(s, p) == \E i \in 1..(Len(s) + 1) : OccursAt(s, p, i)

\* \b of the re module at the gap before character i (1..Len(s)+1)
WordBoundary(s, i) ==
    LET before == i > 1 /\ IsWordChar(CharAt(s, i - 1))
        after == i <= Len(s) /\ IsWordChar(CharAt(s, i))
    IN  before # after

\* re.search(rf'\b{word}\b', s)
SearchWholeWord(word, s) ==
    \E i \in 1..Len(s) :
        /\ OccursAt(s, word, i)
        /\ WordBoundary(s, i)
        /\ WordBoundary(s, i + Len(word))

(***************************************************************************)
(* NaturalLanguageSQL._validate_sql                                        *)
(***************************************************************************)
DangerousKeywords ==
    <<"drop", "delete", "truncate", "insert", "update", "alter", "create",
      "grant", "revoke">>

\* sql.strip() alone: the searches below without the case folding
SqlLowerKeepCase(sql) == Strip(sql)
\* sql_lower = sql.lower().strip()
SqlLower(sql) == Strip(Lower(sql))

\* the for loop: the first keyword of the list that re.search finds, 0 if none
FirstDangerous(sql_lower) ==
    LET found == {k \in 1..Len(DangerousKeywords) :
                     SearchWholeWord(DangerousKeywords[k], sql_lower)}
    IN  IF found = {} THEN 0
        ELSE CHOOSE k \in found : \A j \in found : k <= j

\* what sqlparse.parse can do with the text: return statements, return
\* none (there is nothing to parse), or raise
ParseOutcomes(sql) ==
    IF Strip(sql) = "" THEN {"none"} ELSE {"statements", "error"}

Verdict(is_valid, error) == [is_valid |-> is_valid, error |-> error]
NoVerdict == Verdict(FALSE, "not validated")

ValidateSql(sql, parse) ==
    LET sql_lower == SqlLower(sql)
        k == FirstDangerous(sql_lower)
    IN  IF k # 0
        THEN Verdict(FALSE, "Dangerous keyword '" \o DangerousKeywords[k]
                            \o "' not allowed")
        ELSE IF ~StartsWith(sql_lower, "select")
        THEN Verdict(FALSE, "Only SELECT queries are allowed")
        ELSE IF parse = "none" THEN Verdict(FALSE, "Invalid SQL syntax")
        ELSE IF parse = "error" THEN Verdict(FALSE, "SQL parsing error")
        ELSE Verdict(TRUE, "")

(***************************************************************************)
(* NaturalLanguageSQL: the template synthesizer.                           *)
(***************************************************************************)
\* int(digits)
RECURSIVE StrToInt(_)
StrToInt(ds) ==
    IF ds = "" THEN 0
    ELSE 10 * StrToInt(SubSeq(ds, 1, Len(ds) - 1))
         + (IndexIn(Digits, CharAt(ds, Len(ds))) - 1)
\* the text an f-string puts for an int
RECURSIVE NatToStr(_)
NatToStr(n) ==
    IF n < 10 THEN CharAt(Digits, n + 1)
    ELSE NatToStr(n \div 10) \o CharAt(Digits, (n % 10) + 1)
IntToStr(n) == IF n < 0 THEN "-" \o NatToStr(0 - n) ELSE NatToStr(n)

\* the matches of re.findall(r'\b\d+\b', text), as <<first, last>> positions
NumberMatches(text) ==
    {m \in (1..Len(text)) \X (1..Len(text)) :
        /\ m[1] <= m[2]
        /\ \A k \in m[1]..m[2] : IsDigit(CharAt(text, k))
        /\ WordBoundary(text, m[1])
        /\ WordBoundary(text, m[2] + 1)}

\* (mutant) _extract_number forgetting its default
ExtractNumberNoDefault(text, default) ==
    LET ms == NumberMatches(text)
    IN  IF ms = {} THEN 0
        ELSE LET m == CHOOSE m \in ms : \A o \in ms : m[1] <= o[1]
             IN  StrToInt(SubSeq(text, m[1], m[2]))

\* _extract_number
ExtractNumber(text, default) ==
    LET ms == NumberMatches(text)
    IN  IF ms = {} THEN default
        ELSE LET m == CHOOSE m \in ms : \A o \in ms : m[1] <= o[1]
             IN  StrToInt(SubSeq(text, m[1], m[2]))

\* asset_keywords of _extract_assets
AssetKeywords ==
    <<<<"bitcoin", "btc">>, <<"ethereum", "eth">>, <<"apple", "aapl">>,
      <<"microsoft", "msft">>, <<"google", "googl">>, <<"amazon", "amzn">>,
      <<"tesla", "tsla">>>>

\* the matches of re.findall(r'\b[A-Z]{2,5}\b', text)
TickerMatches(text) ==
    {m \in (1..Len(text)) \X (1..Len(text)) :
        /\ m[2] - m[1] + 1 \in 2..5
        /\ \A k \in m[1]..m[2] : CharAt(text, k) \in UpperSet
        /\ WordBoundary(text, m[1])
        /\ WordBoundary(text, m[2] + 1)}

\* _extract_assets, before list(): the set of the symbols found
ExtractAssets(text) ==
    {AssetKeywords[k][2] : k \in {k \in 1..Len(AssetKeywords) :
                                     Contains(text, AssetKeywords[k][1])}}
    \cup {Lower(SubSeq(Upper(text), m[1], m[2])) : m \in TickerMatches(Upper(text))}

\* list(set(assets)): the orders a set of strings can be listed in
Listings(set) ==
    {l \in [1..Cardinality(set) -> set] :
        \A i, j \in 1..Cardinality(set) : i # j => l[i] # l[j]}

\* sep.join(list)
RECURSIVE Join(_, _)
Join(sep, list) ==
    IF Len(list) = 0 THEN ""
    ELSE IF Len(list) = 1 THEN list[1]
    ELSE list[1] \o sep \o Join(sep, Tail(list))

\* nl_to_sql.py lines 140-146
TplTopStocksByReturn(limit) ==
    "\n"
    \o "                        SELECT asset_symbol, asset_name, total_return, sharpe_ratio, sector\n"
    \o "                        FROM mart_asset_performance\n"
    \o "                        WHERE asset_type = 'stock'\n"
    \o "                        ORDER BY total_return DESC\n"
    \o "                        LIMIT "
    \o IntToStr(limit)
    \o "\n"
    \o "                        "

\* nl_to_sql.py lines 148-154
TplTopStocksByVolatility(limit) ==
    "\n"
    \o "                        SELECT ticker, company_name, volatility_20d, daily_return, sector\n"
    \o "                        FROM int_stock_daily_analysis\n"
    \o "                        WHERE date = (SELECT MAX(date) FROM int_stock_daily_analysis)\n"
    \o "                        ORDER BY volatility_20d DESC\n"
    \o "                        LIMIT "
    \o IntToStr(limit)
    \o "\n"
    \o "                        "

\* nl_to_sql.py lines 156-162
TplTopStocksByVolume(limit) ==
    "\n"
    \o "                        SELECT ticker, company_name, volume, close_price, daily_return\n"
    \o "                        FROM int_stock_daily_analysis\n"
    \o "                        WHERE date = (SELECT MAX(date) FROM int_stock_daily_analysis)\n"
    \o "                        ORDER BY volume DESC\n"
    \o "                        LIMIT "
    \o IntToStr(limit)
    \o "\n"
    \o "                        "

\* nl_to_sql.py lines 164-170
TplStocks ==
    "\n"
    \o "                    SELECT ticker, company_name, close_price, daily_return, sector\n"
    \o "                    FROM int_stock_daily_analysis\n"
    \o "                    WHERE date = (SELECT MAX(date) FROM int_stock_daily_analysis)\n"
    \o "                    ORDER BY ticker\n"
    \o "                    LIMIT 20\n"
    \o "                    "

\* nl_to_sql.py lines 176-182
TplTopCrypto(limit) ==
    "\n"
    \o "                    SELECT symbol, name, price_usd, daily_return, volume_24h\n"
    \o "                    FROM int_crypto_analysis\n"
    \o "                    WHERE date = (SELECT MAX(date) FROM int_crypto_analysis)\n"
    \o "                    ORDER BY daily_return DESC\n"
    \o "                    LIMIT "
    \o IntToStr(limit)
    \o "\n"
    \o "                    "

\* nl_to_sql.py lines 184-190
TplCrypto ==
    "\n"
    \o "                    SELECT symbol, name, price_usd, daily_return, ma_7d, ma_30d\n"
    \o "                    FROM int_crypto_analysis\n"
    \o "                    WHERE date = (SELECT MAX(date) FROM int_crypto_analysis)\n"
    \o "                    ORDER BY symbol\n"
    \o "                    LIMIT 20\n"
    \o "                    "

\* nl_to_sql.py lines 197-206
TplReturnBySector ==
    "\n"
    \o "                    SELECT sector, \n"
    \o "                           AVG(total_return) as avg_return,\n"
    \o "                           AVG(volatility) as avg_volatility,\n"
    \o "                           COUNT(*) as num_assets\n"
    \o "                    FROM mart_asset_performance\n"
    \o "                    WHERE asset_type = 'stock' AND sector IS NOT NULL\n"
    \o "                    GROUP BY sector\n"
    \o "                    ORDER BY avg_return DESC\n"
    \o "                    "

\* nl_to_sql.py lines 208-216
TplReturnByAssetType ==
    "\n"
    \o "                    SELECT asset_type,\n"
    \o "                           AVG(total_return) as avg_return,\n"
    \o "                           AVG(volatility) as avg_volatility,\n"
    \o "                           COUNT(*) as num_assets\n"
    \o "                    FROM mart_asset_performance\n"
    \o "                    GROUP BY asset_type\n"
    \o "                    ORDER BY avg_return DESC\n"
    \o "                    "

\* nl_to_sql.py lines 220-229
TplVolatilityBySector ==
    "\n"
    \o "                    SELECT sector,\n"
    \o "                           AVG(volatility) as avg_volatility,\n"
    \o "                           MAX(volatility) as max_volatility,\n"
    \o "                           MIN(volatility) as min_volatility\n"
    \o "                    FROM mart_asset_performance\n"
    \o "                    WHERE asset_type = 'stock' AND sector IS NOT NULL\n"
    \o "                    GROUP BY sector\n"
    \o "                    ORDER BY avg_volatility DESC\n"
    \o "                    "

\* nl_to_sql.py lines 239-246
TplCompareAssets(assets_list) ==
    "\n"
    \o "                SELECT asset_symbol, asset_name, total_return, \n"
    \o "                       annualized_return, sharpe_ratio, volatility\n"
    \o "                FROM mart_asset_performance\n"
    \o "                WHERE LOWER(asset_symbol) IN ('"
    \o assets_list
    \o "')\n"
    \o "                   OR LOWER(asset_name) IN ('"
    \o assets_list
    \o "')\n"
    \o "                ORDER BY total_return DESC\n"
    \o "                "

\* nl_to_sql.py lines 249-257
TplCompareAssetTypes ==
    "\n"
    \o "                SELECT asset_type,\n"
    \o "                       AVG(total_return) as avg_return,\n"
    \o "                       AVG(sharpe_ratio) as avg_sharpe,\n"
    \o "                       AVG(volatility) as avg_volatility\n"
    \o "                FROM mart_asset_performance\n"
    \o "                GROUP BY asset_type\n"
    \o "                ORDER BY avg_return DESC\n"
    \o "                "

\* nl_to_sql.py lines 265-271
TplMarketTrend(days) ==
    "\n"
    \o "                SELECT date, asset_class, avg_return, \n"
    \o "                       return_volatility, market_regime\n"
    \o "                FROM mart_daily_market_summary\n"
    \o "                WHERE date >= CURRENT_DATE - INTERVAL '"
    \o IntToStr(days)
    \o " days'\n"
    \o "                ORDER BY date DESC, asset_class\n"
    \o "                "

\* nl_to_sql.py lines 276-283
TplAnomalies ==
    "\n"
    \o "            SELECT asset_name, date, daily_return, volume,\n"
    \o "                   return_z_score, anomaly_type\n"
    \o "            FROM analytics_market_anomalies\n"
    \o "            WHERE ABS(return_z_score) > 2\n"
    \o "            ORDER BY date DESC, ABS(return_z_score) DESC\n"
    \o "            LIMIT 20\n"
    \o "            "


QueryIntents ==
    <<"data_retrieval", "aggregation", "comparison", "trend_analysis",
      "anomaly_detection">>

\* the comparison branch of _generate_sql_template; listing is the order in
\* which list(set(...)) gave the assets
CompareSql(assets, listing) ==
    IF Cardinality(assets) >= 2
    THEN Some(TplCompareAssets(Join("', '", listing)))
    ELSE Some(TplCompareAssetTypes)

\* _generate_sql_template: the statement, or None when no branch returns one
GenerateSqlTemplate(query, intent, listing) ==
    LET query_lower == Lower(query)
        has(w) == Contains(query_lower, w)
    IN  IF intent = "data_retrieval" \/ has("show") \/ has("list") \/ has("get")
        THEN IF has("stock")
             THEN IF has("top") \/ has("best") \/ has("highest")
                  THEN LET limit == ExtractNumber(query, 10)
                       IN  IF has("return") \/ has("performance")
                           THEN Some(TplTopStocksByReturn(limit))
                           ELSE IF has("volatil")
                           THEN Some(TplTopStocksByVolatility(limit))
                           ELSE IF has("volume")
                           THEN Some(TplTopStocksByVolume(limit))
                           ELSE None
                  ELSE Some(TplStocks)
             ELSE IF has("crypto") \/ has("bitcoin") \/ has("ethereum")
             THEN IF has("top") \/ has("best")
                  THEN Some(TplTopCrypto(ExtractNumber(query, 10)))
                  ELSE Some(TplCrypto)
             ELSE None
        ELSE IF intent = "aggregation" \/ has("average") \/ has("avg")
                \/ has("mean")
        THEN IF has("return")
             THEN IF has("sector") THEN Some(TplReturnBySector)
                  ELSE Some(TplReturnByAssetType)
             ELSE IF has("volatil")
             THEN IF has("sector") THEN Some(TplVolatilityBySector) ELSE None
             ELSE None
        ELSE IF intent = "comparison" \/ has("compare") \/ has("vs")
                \/ has("versus")
        THEN CompareSql(ExtractAssets(query_lower), listing)
        ELSE IF intent = "trend_analysis" \/ has("trend") \/ has("over time")
        THEN IF has("market") THEN Some(TplMarketTrend(ExtractNumber(query, 30)))
             ELSE None
        ELSE IF intent = "anomaly_detection" \/ has("anomaly") \/ has("unusual")
                \/ has("outlier")
        THEN Some(TplAnomalies)
        ELSE None

\* whether _generate_sql_template reaches _extract_assets for the query
ComparesAssets(query, intent) ==
    LET query_lower == Lower(query)
        has(w) == Contains(query_lower, w)
    IN  /\ ~(intent = "data_retrieval" \/ has("show") \/ has("list") \/ has("get"))
        /\ ~(intent = "aggregation" \/ has("average") \/ has("avg") \/ has("mean"))
        /\ (intent = "comparison" \/ has("compare") \/ has("vs") \/ has("versus"))

(***************************************************************************)
(* The remote endpoint, as requests.post sees it: a timeout, a transport   *)
(* error, or an HTTP response with a status and a body.                    *)
(***************************************************************************)
Texts == {"t1"}
Bodies ==
    [shape : {"list_text"}, text : Texts \cup {""}]
    \cup [shape : {"list_nokey", "empty_list", "dict", "not_json", "list_nondict"},
          text : {""}]
NoBody == [shape |-> "dict", text |-> ""]
Responses ==
    [kind : {"timeout", "connection_error"}, status : {0}, body : {NoBody}]
    \cup [kind : {"http"}, status : {200}, body : Bodies]
    \cup [kind : {"http"}, status : {500, 503}, body : {NoBody}]

\* how long requests.post blocks before it returns or raises
Latency(r) == IF r.kind = "timeout" THEN RequestTimeoutMs ELSE NetLatencyMs

\* the exception requests.post raises for a response, "none" when it returns
PostRaises(r) ==
    CASE r.kind = "timeout" -> "Timeout"
      [] r.kind = "connection_error" -> "ConnectionError"
      [] OTHER -> "none"

\* response.raise_for_status()
RaiseForStatus(r) == IF r.status >= 400 THEN "HTTPError" ELSE "none"

\* the classes of the requests.exceptions hierarchy an exception belongs to
ExceptionClasses(exc) ==
    CASE exc = "Timeout" -> {"Timeout", "RequestException", "Exception"}
      [] exc = "ConnectionError" -> {"ConnectionError", "RequestException", "Exception"}
      [] exc = "HTTPError" -> {"HTTPError", "RequestException", "Exception"}
      [] exc = "ValueError" -> {"ValueError", "Exception"}
      [] exc = "AttributeError" -> {"AttributeError", "Exception"}
      [] OTHER -> {}

\* (mutant) the except clauses without the final except Exception
ExceptClausesNoGeneric(exc) ==
    IF "Timeout" \in ExceptionClasses(exc) THEN "except Timeout"
    ELSE IF "RequestException" \in ExceptionClasses(exc) THEN "except RequestException"
    ELSE "uncaught"
\* the except clauses of generate_text, in order; "uncaught" propagates
ExceptClauses(exc) ==
    IF "Timeout" \in ExceptionClasses(exc) THEN "except Timeout"
    ELSE IF "RequestException" \in ExceptionClasses(exc) THEN "except RequestException"
    ELSE IF "Exception" \in ExceptionClasses(exc) THEN "except Exception"
    ELSE "uncaught"

(***************************************************************************)
(* HuggingFaceAPI.  self is the record of the instance's fields.           *)
(***************************************************************************)
Self == [requests_today |-> requests_today,
         total_requests_month |-> total_requests_month,
         last_request_time |-> last_request_time,
         last_reset_date |-> last_reset_date,
         cache |-> cache]

\* a prompt is its first PromptKeyLen characters (head) and the rest
Prompt(h, r) == [head |-> h, rest |-> r]

\* _get_cache_key: prompt[:100], max_new_tokens, temperature
GetCacheKey(prompt, params) ==
    <<prompt.head, params.max_new_tokens, params.temperature>>

HasKey(c, key) == \E e \in c : e.key = key
Entry(c, key) == CHOOSE e \in c : e.key = key

\* (mutant) the freshness comparison of _check_cache turned around
CheckCacheInverted(c, key, t) ==
    IF HasKey(c, key)
    THEN IF t - Entry(c, key).time >= CacheTtlMs
         THEN [cache |-> c, data |-> Some(Entry(c, key).text)]
         ELSE [cache |-> c \ {Entry(c, key)}, data |-> None]
    ELSE [cache |-> c, data |-> None]

\* _check_cache at time t: the cached text, and the cache with an expired
\* entry for the key deleted
CheckCache(c, key, t) ==
    IF HasKey(c, key)
    THEN IF t - Entry(c, key).time < CacheTtlMs
         THEN [cache |-> c, data |-> Some(Entry(c, key).text)]
         ELSE [cache |-> c \ {Entry(c, key)}, data |-> None]
    ELSE [cache |-> c, data |-> None]

\* self.cache[cache_key] = (generated_text, datetime.now())
CachePut(c, key, text, t) ==
    {e \in c : e.key # key} \cup {[key |-> key, text |-> text, time |-> t]}

\* (mutant) the daily counter never reset
ResetDailyNever(self, t) == self

\* the daily reset at the head of _check_rate_limits
ResetDaily(self, t) ==
    IF DateOf(t) # self.last_reset_date
    THEN [self EXCEPT !.requests_today = 0, !.last_reset_date = DateOf(t)]
    ELSE self

\* (mutant) the caps compared with > instead of >=
CheckRateLimitsOffByOne(self, t) ==
    LET s == ResetDaily(self, t)
        lrt == s.last_request_time
    IN  IF s.requests_today > DailyLimit
        THEN [self |-> s, can_proceed |-> FALSE,
              reason |-> "Daily limit reached", sleep |-> 0]
        ELSE IF s.total_requests_month > MonthlyLimit
        THEN [self |-> s, can_proceed |-> FALSE,
              reason |-> "Monthly limit reached", sleep |-> 0]
        ELSE [self |-> s, can_proceed |-> TRUE, reason |-> "",
              sleep |-> IF lrt # NoTime /\ t - lrt < MinSpacingMs
                        THEN MinSpacingMs - (t - lrt) ELSE 0]

\* (mutant) the daily cap left out of the check
CheckRateLimitsNoDailyCap(self, t) ==
    LET s == ResetDaily(self, t)
        lrt == s.last_request_time
    IN  IF s.total_requests_month >= MonthlyLimit
        THEN [self |-> s, can_proceed |-> FALSE,
              reason |-> "Monthly limit reached", sleep |-> 0]
        ELSE [self |-> s, can_proceed |-> TRUE, reason |-> "",
              sleep |-> IF lrt # NoTime /\ t - lrt < MinSpacingMs
                        THEN MinSpacingMs - (t - lrt) ELSE 0]

\* _check_rate_limits at time t: (can_proceed, reason), the instance after
\* it, and how long it slept
CheckRateLimits(self, t) ==
    LET s == ResetDaily(self, t)
        lrt == s.last_request_time
    IN  IF s.requests_today >= DailyLimit
        THEN [self |-> s, can_proceed |-> FALSE,
              reason |-> "Daily limit reached", sleep |-> 0]
        ELSE IF s.total_requests_month >= MonthlyLimit
        THEN [self |-> s, can_proceed |-> FALSE,
              reason |-> "Monthly limit reached", sleep |-> 0]
        ELSE [self |-> s, can_proceed |-> TRUE, reason |-> "",
              sleep |-> IF lrt # NoTime /\ t - lrt < MinSpacingMs
                        THEN MinSpacingMs - (t - lrt) ELSE 0]

\* (mutant) every 5xx status taken for "model loading"
IsModelLoadingAny5xx(r) == r.kind = "http" /\ r.status >= 500

\* whether the first response makes generate_text wait and post again
IsModelLoading(r) == r.kind = "http" /\ r.status = 503

\* the requests.post calls of one generate_text, the first at time t1:
\* the response raise_for_status is applied to (or the exception post
\* raised), the time it arrived, and the times the requests were sent
Exchange(t1, env) ==
    LET r1 == env.resp1
        a1 == t1 + Latency(r1)
    IN  IF PostRaises(r1) # "none"
        THEN [exc |-> PostRaises(r1), response |-> r1, at |-> a1,
              sent |-> <<t1>>, waited |-> 0]
        ELSE IF IsModelLoading(r1)
        THEN LET t2 == a1 + LoadingWaitMs
                 r2 == env.resp2
             IN  [exc |-> PostRaises(r2), response |-> r2,
                  at |-> t2 + Latency(r2), sent |-> <<t1, t2>>,
                  waited |-> LoadingWaitMs]
        ELSE [exc |-> "none", response |-> r1, at |-> a1,
              sent |-> <<t1>>, waited |-> 0]

\* response.json() and the reading of result[0]['generated_text']:
\* the exception raised, or the value generate_text returns
ReadBody(body) ==
    CASE body.shape = "not_json" -> [exc |-> "ValueError", value |-> None]
      [] body.shape = "list_nondict" -> [exc |-> "AttributeError", value |-> None]
      [] body.shape = "list_text" -> [exc |-> "none", value |-> Some(body.text)]
      [] body.shape = "list_nokey" -> [exc |-> "none", value |-> Some("")]
      [] OTHER -> [exc |-> "none", value |-> None]

\* (mutant) the monthly counter forgotten
UpdateCountersTodayOnly(self, t) ==
    [self EXCEPT !.requests_today = @ + 1, !.last_request_time = t]

\* the counter update after raise_for_status
UpdateCounters(self, t) ==
    [self EXCEPT !.requests_today = @ + 1,
                 !.total_requests_month = @ + 1,
                 !.last_request_time = t]

\* what a call reports: the instance after it, the value returned, whether
\* an exception left the call, and what it did on the way
Outcome(self, result, handled, reason, sent, at, hit, waited, slept) ==
    [self |-> self, result |-> result, raised |-> handled = "uncaught",
     handled |-> handled, reason |-> reason, sent |-> sent, at |-> at,
     cache_hit |-> hit, waited |-> waited, slept |-> slept]

\* the try block of generate_text once the rate limits let it proceed
TryRequest(self, t1, key, use_cache, env, slept) ==
    LET x == Exchange(t1, env)
        status_exc == IF x.exc # "none" THEN x.exc ELSE RaiseForStatus(x.response)
    IN  IF status_exc # "none"
        THEN Outcome(self, None, ExceptClauses(status_exc), "", x.sent, x.at,
                     FALSE, x.waited, slept)
        ELSE LET counted == UpdateCounters(self, x.at)
                 b == ReadBody(x.response.body)
             IN  IF b.exc # "none"
                 THEN Outcome(counted, None, ExceptClauses(b.exc), "", x.sent,
                              x.at, FALSE, x.waited, slept)
                 ELSE IF b.value.none
                 THEN Outcome(counted, None, "none", "", x.sent, x.at, FALSE,
                              x.waited, slept)
                 ELSE Outcome(IF use_cache /\ b.value.text # ""
                              THEN [counted EXCEPT !.cache =
                                       CachePut(@, key, b.value.text, x.at)]
                              ELSE counted,
                              b.value, "none", "", x.sent, x.at, FALSE,
                              x.waited, slept)

\* generate_text(prompt, max_length, use_cache) called at time t
GenerateText(self, t, prompt, max_length, use_cache, env) ==
    LET params == [max_new_tokens |-> max_length, temperature |-> Temperature]
        key == GetCacheKey(prompt, params)
        cc == IF use_cache THEN CheckCache(self.cache, key, t)
              ELSE [cache |-> self.cache, data |-> None]
        s1 == [self EXCEPT !.cache = cc.cache]
        rl == CheckRateLimits(s1, t)
    IN  IF use_cache /\ ~cc.data.none /\ cc.data.text # ""
        THEN Outcome(s1, cc.data, "none", "", <<>>, t, TRUE, 0, 0)
        ELSE IF ~rl.can_proceed
        THEN Outcome(rl.self, None, "none", rl.reason, <<>>, t, FALSE, 0, 0)
        ELSE TryRequest(rl.self, t + rl.sleep, key, use_cache, env, rl.sleep)

\* reset_usage_stats
ResetUsageStats(self) ==
    [self EXCEPT !.requests_today = 0, !.total_requests_month = 0]

\* clear_cache
ClearCache(self) == [self EXCEPT !.cache = {}]

(***************************************************************************)
(* HuggingFaceAPI.generate_sql_from_nl and _clean_sql                      *)
(***************************************************************************)
\* re.sub(fence + r'\n?', '', s)
RECURSIVE RemoveFences(_, _)
RemoveFences(s, fence) ==
    LET at == {i \in 1..Len(s) : OccursAt(s, fence, i)}
        i == CHOOSE i \in at : \A j \in at : i <= j
        rest == SubSeq(s, i + Len(fence), Len(s))
    IN  IF at = {} THEN s
        ELSE SubSeq(s, 1, i - 1)
             \o RemoveFences(IF StartsWith(rest, "\n")
                              THEN SubSeq(rest, 2, Len(rest)) ELSE rest, fence)

\* re.sub(r'^(SQL Query:|Query:)\s*', '', s, flags=re.IGNORECASE)
RemovePrefix(s) ==
    LET p == IF StartsWith(Lower(s), "sql query:") THEN 10
             ELSE IF StartsWith(Lower(s), "query:") THEN 6
             ELSE 0
    IN  IF p = 0 THEN s ELSE LStrip(SubSeq(s, p + 1, Len(s)))

\* the backquote, which a TLA+ string cannot hold, is written ~ in the model
Fence == "~~~"

\* _clean_sql
CleanSql(sql) ==
    IF sql = "" THEN ""
    ELSE RStripChars(
             Strip(RemovePrefix(RemoveFences(RemoveFences(sql, Fence \o "sql"),
                                             Fence))),
             {";"})

\* the prompt of generate_sql_from_nl up to the schema description
SqlPromptIntro ==
    "You are a PostgreSQL expert for a financial analytics database.\n"
    \o "Convert the natural language query to a valid PostgreSQL SQL query.\n"
    \o "\n"
    \o "DATABASE SCHEMA:\n"
\* the prompt: the part the cache key is made of, and the schema and query
SqlPrompt(query) == Prompt(SubSeq(SqlPromptIntro, 1, PromptKeyLen), query)
SqlMaxLength == 300

\* generate_sql_from_nl: what generate_text did, and the SQL returned
GenerateSqlFromNl(self, t, query, env) ==
    LET o == GenerateText(self, t, SqlPrompt(query), SqlMaxLength, TRUE, env)
    IN  [remote |-> o,
         sql |-> IF o.result.none \/ o.result.text = "" THEN None
                 ELSE Some(CleanSql(o.result.text))]

(***************************************************************************)
(* NaturalLanguageSQL._execute_query, and the database it talks to.        *)
(***************************************************************************)
DefaultLimit == 100

\* the statement _execute_query hands to cursor.execute
WithLimit(sql, limit) ==
    LET sql_lower == Lower(sql)
    IN  IF ~Contains(sql_lower, "limit")
        THEN RStripChars(sql, {";"}) \o " LIMIT " \o IntToStr(limit)
        ELSE sql

\* what the database does for one call: whether connect, cursor and execute
\* succeed, whether the statement leaves a result description, and the rows
Rowsets == {<<>>, <<"row1">>, <<"row1", "row2">>}
Databases ==
    [connect : {"error"}, cursor : {"ok"}, execute : {"ok"},
     description : {TRUE}, rows : {<<>>}]
    \cup [connect : {"ok"}, cursor : {"error"}, execute : {"ok"},
          description : {TRUE}, rows : {<<>>}]
    \cup [connect : {"ok"}, cursor : {"ok"}, execute : {"error"},
          description : {TRUE}, rows : {<<>>}]
    \cup [connect : {"ok"}, cursor : {"ok"}, execute : {"ok"},
          description : {FALSE}, rows : {<<>>}]
    \cup [connect : {"ok"}, cursor : {"ok"}, execute : {"ok"},
          description : {TRUE}, rows : Rowsets]
NoDatabase ==
    [connect |-> "error", cursor |-> "ok", execute |-> "ok",
     description |-> TRUE, rows |-> <<>>]

Executed(statements, exc, results, opened, closed) ==
    [statements |-> statements, exc |-> exc, results |-> results,
     opened |-> opened, closed |-> closed]
NotExecuted == Executed(<<>>, "none", <<>>, 0, 0)

\* _execute_query from connect on: the statements handed to cursor.execute,
\* the exception that leaves the function, the rows returned, and the
\* connections opened and closed
RunStatement(statement, db) ==
    IF db.connect = "error"
    THEN Executed(<<>>, "OperationalError", <<>>, 0, 0)
    ELSE IF db.cursor = "error"
    THEN Executed(<<>>, "InterfaceError", <<>>, 1, 0)
    ELSE IF db.execute = "error"
    THEN Executed(<<statement>>, "DatabaseError", <<>>, 1, 1)
    ELSE IF ~db.description
    THEN Executed(<<statement>>, "TypeError", <<>>, 1, 1)
    ELSE Executed(<<statement>>, "none", db.rows, 1, 1)

\* _execute_query
ExecuteQuery(sql, limit, db) == RunStatement(WithLimit(sql, limit), db)

(***************************************************************************)
(* NaturalLanguageSQL.process_query                                        *)
(***************************************************************************)
\* confidence is kept in hundredths: the code's 0.7 is 70
ConfidenceThreshold == 70

\* what classify_query_intent can answer: any intent with a confidence, or,
\* when the model fails, the first intent with confidence 0
Classifications ==
    [intent : {QueryIntents[k] : k \in 1..Len(QueryIntents)},
     confidence : {40, 90}]
    \cup {[intent |-> QueryIntents[1], confidence |-> 0]}

\* (mutant) row_count counting one row too many
RowCountOffByOne(results) == Len(results) + 1
\* 'row_count': len(results)
RowCount(results) == Len(results)

\* the dict process_query returns: the keys it has and their values (a key
\* the dict lacks has the value result.get(key, default) would give)
QueryResult(keys, success, error, sql, results, intent, confidence, method) ==
    [keys |-> keys, success |-> success, error |-> error, sql |-> sql,
     results |-> results,
     row_count |-> IF "row_count" \in keys THEN RowCount(results) ELSE 0,
     intent |-> intent,
     confidence |-> confidence, method |-> method]

\* whether process_query tries the template synthesizer
TriesTemplate(use_ai, cls) == cls.confidence > ConfidenceThreshold \/ ~use_ai

\* (mutant) the remote fallback taken whether or not use_ai is set
TryTemplateAlwaysAsks(query, use_ai, cls, listing) ==
    LET template == IF TriesTemplate(use_ai, cls)
                    THEN GenerateSqlTemplate(query, cls.intent, listing)
                    ELSE None
    IN  [tried_template |-> TriesTemplate(use_ai, cls), template |-> template,
         asked_ai |-> (template.none \/ template.text = "")]

\* step 2 of process_query up to the fallback: the template, if tried, and
\* whether the remote model is asked
TryTemplate(query, use_ai, cls, listing) ==
    LET template == IF TriesTemplate(use_ai, cls)
                    THEN GenerateSqlTemplate(query, cls.intent, listing)
                    ELSE None
    IN  [tried_template |-> TriesTemplate(use_ai, cls), template |-> template,
         asked_ai |-> (template.none \/ template.text = "") /\ use_ai]

\* step 2 of process_query: the template, the remote fallback, the method
GenerateSql(self, t, query, tt, env) ==
    LET ai == IF tt.asked_ai THEN GenerateSqlFromNl(self, t, query, env)
              ELSE [remote |-> Outcome(self, None, "none", "", <<>>, t, FALSE, 0, 0),
                    sql |-> tt.template]
    IN  [tried_template |-> tt.tried_template, template |-> tt.template,
         asked_ai |-> tt.asked_ai, remote |-> ai.remote, sql |-> ai.sql,
         method |-> IF tt.asked_ai THEN "ai_generated"
                    ELSE IF tt.tried_template THEN "template"
                    ELSE "attempted_template"]

\* (mutant) process_query executing what _validate_sql rejected
FinishQueryUnguarded(g, cls, v, x) ==
        IF g.sql.none \/ g.sql.text = ""
        THEN [verdict |-> NoVerdict, exec |-> NotExecuted,
              result |-> QueryResult({"success", "error", "suggestion", "intent",
                                      "confidence", "processing_time"},
                                     FALSE, "Could not generate SQL query", None,
                                     <<>>, cls.intent, cls.confidence, "")]
        ELSE IF FALSE
        THEN [verdict |-> v, exec |-> NotExecuted,
              result |-> QueryResult({"success", "error", "sql", "intent",
                                      "method", "processing_time"},
                                     FALSE, "SQL validation failed: " \o v.error,
                                     g.sql, <<>>, cls.intent, 0, g.method)]
        ELSE IF x.exc # "none"
        THEN [verdict |-> v, exec |-> x,
              result |-> QueryResult({"success", "error", "sql", "intent",
                                      "method", "processing_time"},
                                     FALSE, x.exc, g.sql, <<>>, cls.intent, 0,
                                     g.method)]
        ELSE [verdict |-> v, exec |-> x,
              result |-> QueryResult({"success", "sql", "results", "row_count",
                                      "intent", "confidence", "method",
                                      "processing_time"},
                                     TRUE, "", g.sql, x.results, cls.intent,
                                     cls.confidence, g.method)]

\* process_query from step 3 on, given what step 2 produced (g), what
\* _validate_sql answers for it (v) and what _execute_query does with it (x)
FinishQuery(g, cls, v, x) ==
        IF g.sql.none \/ g.sql.text = ""
        THEN [verdict |-> NoVerdict, exec |-> NotExecuted,
              result |-> QueryResult({"success", "error", "suggestion", "intent",
                                      "confidence", "processing_time"},
                                     FALSE, "Could not generate SQL query", None,
                                     <<>>, cls.intent, cls.confidence, "")]
        ELSE IF ~v.is_valid
        THEN [verdict |-> v, exec |-> NotExecuted,
              result |-> QueryResult({"success", "error", "sql", "intent",
                                      "method", "processing_time"},
                                     FALSE, "SQL validation failed: " \o v.error,
                                     g.sql, <<>>, cls.intent, 0, g.method)]
        ELSE IF x.exc # "none"
        THEN [verdict |-> v, exec |-> x,
              result |-> QueryResult({"success", "error", "sql", "intent",
                                      "method", "processing_time"},
                                     FALSE, x.exc, g.sql, <<>>, cls.intent, 0,
                                     g.method)]
        ELSE [verdict |-> v, exec |-> x,
              result |-> QueryResult({"success", "sql", "results", "row_count",
                                      "intent", "confidence", "method",
                                      "processing_time"},
                                     TRUE, "", g.sql, x.results, cls.intent,
                                     cls.confidence, g.method)]

\* analysis_engine.py lines 36-42
MarketQueryOn(date) ==
    "\n"
    \o "            SELECT date, asset_class, avg_return, return_volatility, \n"
    \o "                   market_regime, risk_sentiment\n"
    \o "            FROM public_marts.mart_daily_market_summary\n"
    \o "            WHERE date = '"
    \o date
    \o "'\n"
    \o "            ORDER BY asset_class\n"
    \o "            "

\* analysis_engine.py lines 44-50
MarketQueryLatest ==
    "\n"
    \o "            SELECT date, asset_class, avg_return, return_volatility, \n"
    \o "                   market_regime, risk_sentiment\n"
    \o "            FROM public_marts.mart_daily_market_summary\n"
    \o "            WHERE date = (SELECT MAX(date) FROM public_marts.mart_daily_market_summary)\n"
    \o "            ORDER BY asset_class\n"
    \o "            "

\* analysis_engine.py lines 250-257
AssetQuery(asset_symbol) ==
    "\n"
    \o "        SELECT asset_symbol, asset_name, asset_type, sector,\n"
    \o "               current_price, total_return, annualized_return, \n"
    \o "               annualized_volatility, sharpe_ratio, max_drawdown,\n"
    \o "               risk_return_profile, dominant_ma_signal, dominant_rsi_signal\n"
    \o "        FROM public_marts.mart_asset_performance\n"
    \o "        WHERE LOWER(asset_symbol) = LOWER('"
    \o asset_symbol
    \o "')\n"
    \o "        "

\* anomaly_detector.py lines 36-44
AnomalyQuery(days, anomaly_threshold) ==
    "\n"
    \o "        SELECT asset_name, asset_id, date, daily_return, anomaly_type,\n"
    \o "               anomaly_score, price_change_pct\n"
    \o "        FROM public_analytics.analytics_market_anomalies\n"
    \o "        WHERE date >= CURRENT_DATE - INTERVAL '"
    \o IntToStr(days)
    \o " days'\n"
    \o "          AND ABS(anomaly_score) > "
    \o anomaly_threshold
    \o "\n"
    \o "        ORDER BY date DESC, ABS(anomaly_score) DESC\n"
    \o "        LIMIT 50\n"
    \o "        "

(***************************************************************************)
(* Floating-point values.  A float is not-a-number or a number kept in     *)
(* ten-thousandths (2.5 is 25000); a comparison with NaN is false.         *)
(***************************************************************************)
Float(v) == [nan |-> FALSE, v |-> v]
NaN == [nan |-> TRUE, v |-> 0]
Unit == 10000
FAbs(x) == IF x.nan THEN NaN ELSE Float(IF x.v < 0 THEN 0 - x.v ELSE x.v)
FTimes(x, n) == IF x.nan THEN NaN ELSE Float(x.v * n)
FEq(x, y) == ~x.nan /\ ~y.nan /\ x.v = y.v
FGe(x, y) == ~x.nan /\ ~y.nan /\ x.v >= y.v
FLt(x, y) == ~x.nan /\ ~y.nan /\ x.v < y.v
FGt(x, y) == ~x.nan /\ ~y.nan /\ x.v > y.v

(***************************************************************************)
(* AnomalyDetector._classify_anomalies                                     *)
(***************************************************************************)
Critical == Float(4 * Unit)
High == Float(3 * Unit)
Medium == Float((5 * Unit) \div 2)

\* (mutant) the high threshold tested with > instead of >=
SeverityOfStrictHigh(z_score) ==
    IF FGe(z_score, Critical) THEN "critical"
    ELSE IF FGt(z_score, High) THEN "high"
    ELSE IF FGe(z_score, Medium) THEN "medium"
    ELSE "low"
\* the if/elif chain that determines severity
SeverityOf(z_score) ==
    IF FGe(z_score, Critical) THEN "critical"
    ELSE IF FGe(z_score, High) THEN "high"
    ELSE IF FGe(z_score, Medium) THEN "medium"
    ELSE "low"

\* a row of analytics_market_anomalies, as far as the classifier reads it
AnomalyRow(score, return) ==
    [asset_name |-> "Apple Inc.", anomaly_score |-> score, daily_return |-> return]

\* abs(float(anomaly.get('anomaly_score', 0))), or the estimate from
\* daily_return when that is 0
ZScore(anomaly) ==
    LET z_score == FAbs(anomaly.anomaly_score)
    IN  IF FEq(z_score, Float(0))
        THEN FTimes(FAbs(anomaly.daily_return), 100)
        ELSE z_score

\* one pass of the loop: the anomaly with severity and z_score_abs added
Classified(anomaly) ==
    [asset_name |-> anomaly.asset_name,
     anomaly_score |-> anomaly.anomaly_score,
     daily_return |-> anomaly.daily_return,
     severity |-> SeverityOf(ZScore(anomaly)),
     z_score_abs |-> ZScore(anomaly)]

\* _classify_anomalies
ClassifyAnomalies(anomalies) ==
    [i \in 1..Len(anomalies) |-> Classified(anomalies[i])]

(***************************************************************************)
(* FinancialVectorStore.  A collection is the sequence of its records in   *)
(* the order they were added; a similarity or a distance is kept in        *)
(* hundredths (0.8 is 80).                                                 *)
(***************************************************************************)
\* {**base, **extra}: the keys of both, extra's value where both have one
Merge(base, extra) ==
    [k \in DOMAIN base \cup DOMAIN extra |->
        IF k \in DOMAIN extra THEN extra[k] ELSE base[k]]
\* metadata.get(key, default)
Get(metadata, key, default) ==
    IF key \in DOMAIN metadata THEN metadata[key] ELSE default

\* where the embedding model puts a text, on a line, in tenths
Position(text) ==
    CASE text = "flash crash" -> 3
      [] text = "rally" -> 4
      [] text = "sell-off" -> 6
      [] text = "earnings" -> 12
      [] OTHER -> 0
\* what the embedding model and the index do for one call
IndexEnvs ==
    {[embed |-> "ok", backend |-> "ok"], [embed |-> "error", backend |-> "ok"],
     [embed |-> "ok", backend |-> "error"]}
IndexOk == [embed |-> "ok", backend |-> "ok"]
\* np.zeros((1, 384))[0]
ZeroEmbedding == [zero |-> TRUE, x |-> 0]
\* generate_embeddings([text])[0]: the unit vector of the text, or the
\* zero vector when the model fails (the exception is caught there)
GenerateEmbeddings(text, env) ==
    IF env.embed = "error" THEN ZeroEmbedding
    ELSE [zero |-> FALSE, x |-> Position(text)]
\* the distance of the collection's metric (squared L2) between two
\* embeddings; a unit vector is at 1.0 from the zero vector
Distance(a, b) ==
    IF a.zero /\ b.zero THEN 0
    ELSE IF a.zero \/ b.zero THEN 100
    ELSE (a.x - b.x) * (a.x - b.x)

StoredRecord(id, document, metadata, embedding) ==
    [id |-> id, document |-> document, metadata |-> metadata,
     embedding |-> embedding]
HasId(collection, id) == \E i \in 1..Len(collection) : collection[i].id = id

\* collection.add(embeddings, documents, metadatas, ids) for one record: a
\* record whose id the collection already holds is not stored (the add is
\* skipped or raises, by the version of the library)
CollectionAdd(collection, record) ==
    IF HasId(collection, record.id) THEN collection
    ELSE Append(collection, record)

\* collection.count()
Count(collection) == Len(collection)

\* the call of the index raises, and the method's except clause catches it
IndexFails(env) == env.backend = "error"

\* add_market_pattern at time t
AddMarketPattern(store, pattern_id, pattern_description, pattern_type, metadata, t, env) ==
    IF IndexFails(env) THEN store
    ELSE [store EXCEPT !.patterns =
            CollectionAdd(@, StoredRecord(pattern_id, pattern_description,
                Merge([pattern_type |-> pattern_type, timestamp |-> IntToStr(t)],
                      metadata),
                GenerateEmbeddings(pattern_description, env)))]

\* add_anomaly at time t
AddAnomaly(store, anomaly_id, anomaly_description, severity, metadata, t, env) ==
    IF IndexFails(env) THEN store
    ELSE [store EXCEPT !.anomalies =
            CollectionAdd(@, StoredRecord(anomaly_id, anomaly_description,
                Merge([severity |-> severity, detected_at |-> IntToStr(t)],
                      metadata),
                GenerateEmbeddings(anomaly_description, env)))]

\* add_market_event at time t
AddMarketEvent(store, event_id, event_description, event_date, metadata, t, env) ==
    IF IndexFails(env) THEN store
    ELSE [store EXCEPT !.events =
            CollectionAdd(@, StoredRecord(event_id, event_description,
                Merge([event_date |-> event_date, indexed_at |-> IntToStr(t)],
                      metadata),
                GenerateEmbeddings(event_description, env)))]

\* the records a where clause lets through; no clause lets every record through
NoWhere == [none |-> TRUE, key |-> "", value |-> ""]
Where(key, value) == [none |-> FALSE, key |-> key, value |-> value]
Matches(record, where) ==
    \/ where.none
    \/ /\ where.key \in DOMAIN record.metadata
       /\ record.metadata[where.key] = where.value

\* the orders in which the k nearest of the records idx can come, d being
\* their distances
RECURSIVE NearestFirst(_, _, _)
NearestFirst(idx, d, k) ==
    IF k = 0 \/ idx = {} THEN {<<>>}
    ELSE UNION {{<<i>> \o rest : rest \in NearestFirst(idx \ {i}, d, k - 1)} :
                   i \in {i \in idx : \A o \in idx : d[i] <= d[o]}}

\* collection.query(query_embeddings, n_results, where): the possible
\* answers, each the n_results nearest matching records, nearest first
\* (records at the same distance come in either order)
Query(collection, query_embedding, n_results, where) ==
    LET idx == {i \in 1..Len(collection) : Matches(collection[i], where)}
        k == IF n_results < Cardinality(idx) THEN n_results ELSE Cardinality(idx)
        d == [i \in idx |-> Distance(query_embedding, collection[i].embedding)]
    IN  {[j \in 1..k |-> [id |-> collection[l[j]].id,
                          document |-> collection[l[j]].document,
                          metadata |-> collection[l[j]].metadata,
                          distance |-> d[l[j]]]] :
            l \in NearestFirst(idx, d, k)}

\* the relevance bucket of a similarity
Relevance(similarity) ==
    IF similarity > 80 THEN "high" ELSE IF similarity > 60 THEN "medium" ELSE "low"
\* 1 - results['distances'][0][i]
SimilarityOf(distance) == 100 - distance

\* _format_results
FormatResults(results) ==
    [i \in 1..Len(results) |->
        [id |-> results[i].id, description |-> results[i].document,
         metadata |-> results[i].metadata,
         similarity |-> SimilarityOf(results[i].distance),
         relevance |-> Relevance(SimilarityOf(results[i].distance))]]

\* list[:n]
Take(list, n) == SubSeq(list, 1, IF n < Len(list) THEN n ELSE Len(list))

\* search_similar_patterns: the lists it can return
SearchSimilarPatterns(store, query, n_results, pattern_type, env) ==
    LET where_clause == IF ~pattern_type.none /\ pattern_type.text # ""
                        THEN Where("pattern_type", pattern_type.text)
                        ELSE NoWhere
    IN  IF IndexFails(env) \/ n_results <= 0 THEN {<<>>}
        ELSE {FormatResults(r) :
                r \in Query(store.patterns, GenerateEmbeddings(query, env),
                          n_results, where_clause)}

\* severity_order and severity_order.get(severity, 0)
SeverityLevels == [low |-> 0, medium |-> 1, high |-> 2, critical |-> 3]
SeverityLevel(severity) ==
    IF severity \in DOMAIN SeverityLevels THEN SeverityLevels[severity] ELSE 0

\* (mutant) search_similar_anomalies asking for n_results candidates only
SearchSimilarAnomaliesNoOverfetch(store, query, n_results, min_severity, env) ==
    LET truthy == ~min_severity.none /\ min_severity.text # ""
        passes(r) == SeverityLevel(Get(r.metadata, "severity", "low"))
                        >= SeverityLevels[min_severity.text]
    IN  IF IndexFails(env) \/ n_results <= 0 THEN {<<>>}
        ELSE IF truthy /\ min_severity.text \notin DOMAIN SeverityLevels
        THEN {<<>>}
        ELSE {IF truthy THEN Take(SelectSeq(FormatResults(r), passes), n_results)
              ELSE FormatResults(r) :
                r \in Query(store.anomalies, GenerateEmbeddings(query, env),
                          n_results, NoWhere)}

\* search_similar_anomalies: the lists it can return
SearchSimilarAnomalies(store, query, n_results, min_severity, env) ==
    LET truthy == ~min_severity.none /\ min_severity.text # ""
        passes(r) == SeverityLevel(Get(r.metadata, "severity", "low"))
                        >= SeverityLevels[min_severity.text]
    IN  IF IndexFails(env) \/ n_results <= 0 THEN {<<>>}
        ELSE IF truthy /\ min_severity.text \notin DOMAIN SeverityLevels
        THEN {<<>>}
        ELSE {IF truthy THEN Take(SelectSeq(FormatResults(r), passes), n_results)
              ELSE FormatResults(r) :
                r \in Query(store.anomalies, GenerateEmbeddings(query, env),
                          n_results * 2, NoWhere)}

\* a < b for two strings of digits and dashes, as Python compares them
DateChars == "-0123456789"
RECURSIVE StrLt(_, _)
StrLt(a, b) ==
    IF b = "" THEN FALSE
    ELSE IF a = "" THEN TRUE
    ELSE IF CharAt(a, 1) # CharAt(b, 1)
    THEN IndexIn(DateChars, CharAt(a, 1)) < IndexIn(DateChars, CharAt(b, 1))
    ELSE StrLt(SubSeq(a, 2, Len(a)), SubSeq(b, 2, Len(b)))

\* _date_in_range
DateInRange(event_date, date_from, date_to) ==
    IF event_date.none \/ event_date.text = "" THEN TRUE
    ELSE IF ~date_from.none /\ date_from.text # ""
            /\ StrLt(event_date.text, date_from.text) THEN FALSE
    ELSE IF ~date_to.none /\ date_to.text # ""
            /\ StrLt(date_to.text, event_date.text) THEN FALSE
    ELSE TRUE

\* search_historical_events: the lists it can return
SearchHistoricalEvents(store, query, n_results, date_from, date_to, env) ==
    LET filtered == (~date_from.none /\ date_from.text # "")
                    \/ (~date_to.none /\ date_to.text # "")
        passes(r) == DateInRange(IF "event_date" \in DOMAIN r.metadata
                                 THEN Some(r.metadata["event_date"]) ELSE None,
                                 date_from, date_to)
    IN  IF IndexFails(env) \/ n_results <= 0 THEN {<<>>}
        ELSE {IF filtered THEN Take(SelectSeq(FormatResults(r), passes), n_results)
              ELSE FormatResults(r) :
                r \in Query(store.events, GenerateEmbeddings(query, env),
                          n_results * 2, NoWhere)}

(***************************************************************************)
(* The other callers of _execute_query: AnomalyDetector and                *)
(* FinancialAnalysisEngine.                                                *)
(***************************************************************************)
AnomalyThreshold == "2.0"

\* the dict these handlers return, as far as it is modelled
Analysis(success, error, found, has_ai) ==
    [success |-> success, error |-> error, found |-> found,
     ai_insights |-> has_ai]

\* f"{x:.2%}" and f"{x:.2f}" of a float whose digits past the second
\* decimal printed are zero
TwoDigits(n) == IF n < 10 THEN "0" \o NatToStr(n) ELSE NatToStr(n)
FormatPercent(x) ==
    IF x.nan THEN "nan%"
    ELSE (IF x.v < 0 THEN "-" ELSE "")
         \o NatToStr(FAbs(x).v \div 100) \o "." \o TwoDigits(FAbs(x).v % 100) \o "%"
FormatFixed(x) ==
    IF x.nan THEN "nan"
    ELSE (IF x.v < 0 THEN "-" ELSE "")
         \o NatToStr(FAbs(x).v \div Unit) \o "."
         \o TwoDigits((FAbs(x).v % Unit) \div 100)

\* the description _enrich_with_patterns searches with
AnomalyDescription(anomaly) ==
    anomaly.asset_name \o " experienced " \o FormatPercent(anomaly.daily_return)
    \o " return with z-score " \o FormatFixed(anomaly.z_score_abs)

EnrichTop == 10
SimilarWanted == 3
EnrichMinSeverity == "medium"

\* anomaly['similar_patterns'] = similar
Enriched(anomaly, similar) ==
    [asset_name |-> anomaly.asset_name,
     anomaly_score |-> anomaly.anomaly_score,
     daily_return |-> anomaly.daily_return,
     severity |-> anomaly.severity,
     z_score_abs |-> anomaly.z_score_abs,
     similar_patterns |-> similar]

\* _enrich_with_patterns: the lists it can return, one search per anomaly,
\* each search finding the index and the embedding model working or not
EnrichWithPatterns(store, anomalies) ==
    LET similar ==
            [i \in 1..Len(anomalies) |->
                UNION {SearchSimilarAnomalies(store, AnomalyDescription(anomalies[i]),
                                              SimilarWanted, Some(EnrichMinSeverity),
                                              env) :
                         env \in IndexEnvs}]
    IN  {[i \in 1..Len(anomalies) |-> Enriched(anomalies[i], e[i])] :
            e \in {e \in [1..Len(anomalies) ->
                             UNION {similar[i] : i \in 1..Len(anomalies)}] :
                     \A i \in 1..Len(anomalies) : e[i] \in similar[i]}}

\* the dict detect_recent_anomalies returns: the keys it has and their values
Detection(keys, success, error, found, days, classified, top, all) ==
    [keys |-> keys, success |-> success, error |-> error,
     anomalies_found |-> found, period_days |-> days,
     by_severity |->
        [sev \in {"critical", "high", "medium", "low"} |->
            Cardinality({i \in 1..Len(classified) : classified[i].severity = sev})],
     top_anomalies |-> top, all_anomalies |-> all]

\* (mutant) an empty result taken for a failure
DetectRecentAnomaliesEmptyFails(days, min_severity, x, store) ==
    LET classified == ClassifyAnomalies(x.results)
    IN  IF x.exc # "none" \/ x.results = <<>>
        THEN {[exec |-> x, lookups |-> 0,
               result |-> Detection({"success", "error"}, FALSE, x.exc, 0, days,
                                    <<>>, <<>>, <<>>)]}
        ELSE {[exec |-> x, lookups |-> Len(enriched),
               result |-> Detection({"success", "anomalies_found", "period_days",
                                     "by_severity", "top_anomalies", "all_anomalies"},
                                    TRUE, "", Len(x.results), days, classified,
                                    enriched,
                                    enriched \o SubSeq(classified, EnrichTop + 1,
                                                       Len(classified)))] :
                enriched \in EnrichWithPatterns(store, Take(classified, EnrichTop))}

\* detect_recent_anomalies(days, min_severity), given what _execute_query
\* does with its statement (x): the outcomes it can have.  The dicts of the
\* rows are classified and enriched in place, so all_anomalies holds the
\* enriched dicts of the top anomalies followed by the other classified ones
DetectRecentAnomalies(days, min_severity, x, store) ==
    LET classified == ClassifyAnomalies(x.results)
    IN  IF x.exc # "none"
        THEN {[exec |-> x, lookups |-> 0,
               result |-> Detection({"success", "error"}, FALSE, x.exc, 0, days,
                                    <<>>, <<>>, <<>>)]}
        ELSE IF x.results = <<>>
        THEN {[exec |-> x, lookups |-> 0,
               result |-> Detection({"success", "anomalies_found", "message"},
                                    TRUE, "", 0, days, <<>>, <<>>, <<>>)]}
        ELSE {[exec |-> x, lookups |-> Len(enriched),
               result |-> Detection({"success", "anomalies_found", "period_days",
                                     "by_severity", "top_anomalies", "all_anomalies"},
                                    TRUE, "", Len(x.results), days, classified,
                                    enriched,
                                    enriched \o SubSeq(classified, EnrichTop + 1,
                                                       Len(classified)))] :
                enriched \in EnrichWithPatterns(store, Take(classified, EnrichTop))}

\* ' '.join(text.split())
RECURSIVE CollapseSpaces(_)
CollapseSpaces(text) ==
    LET t == LStrip(text)
        gaps == {i \in 1..Len(t) : CharAt(t, i) \in Whitespace}
        gap == CHOOSE i \in gaps : \A j \in gaps : i <= j
        rest == CollapseSpaces(SubSeq(t, gap, Len(t)))
    IN  IF gaps = {} THEN t
        ELSE IF rest = "" THEN SubSeq(t, 1, gap - 1)
        ELSE SubSeq(t, 1, gap - 1) \o " " \o rest

\* _clean_explanation
CleanExplanation(text) ==
    LET l == Lower(text)
        p == IF StartsWith(l, "explanation:") THEN 12
             ELSE IF StartsWith(l, "analysis:") THEN 9
             ELSE IF StartsWith(l, "summary:") THEN 8
             ELSE 0
    IN  IF text = "" THEN ""
        ELSE Strip(CollapseSpaces(LStrip(SubSeq(text, p + 1, Len(text)))))

\* the prompt of explain_financial_pattern up to the date of the pattern
ExplainPromptIntro ==
    "You are a financial analyst explaining market patterns to investors.\n"
    \o "\n"
    \o "PATTERN DATA:\n"
    \o "{\n"
    \o "  \"date\": \""
\* the date column of the rows the database returns
RowDate == "2024-01-15"
ExplainPrompt ==
    Prompt(SubSeq(ExplainPromptIntro \o RowDate, 1, PromptKeyLen), "pattern")
ExplainMaxLength == 200

\* explain_financial_pattern
ExplainFinancialPattern(self, t, env) ==
    LET o == GenerateText(self, t, ExplainPrompt, ExplainMaxLength, TRUE, env)
    IN  [remote |-> o,
         text |-> IF o.result.none \/ o.result.text = "" THEN None
                  ELSE Some(CleanExplanation(o.result.text))]

\* analyze_market_conditions; date is None or the caller's text
AnalyzeMarketConditions(self, t, date, db, env) ==
    LET query == IF ~date.none /\ date.text # "" THEN MarketQueryOn(date.text)
                 ELSE MarketQueryLatest
        x == ExecuteQuery(query, DefaultLimit, db)
        idle == Outcome(self, None, "none", "", <<>>, t, FALSE, 0, 0)
        rl == CheckRateLimits(self, t)
        checked == Outcome(rl.self, None, "none", rl.reason, <<>>, t + rl.sleep,
                           FALSE, 0, rl.sleep)
        ai == ExplainFinancialPattern(rl.self, t + rl.sleep, env)
    IN  IF x.exc # "none"
        THEN [exec |-> x, remote |-> idle,
              result |-> Analysis(FALSE, x.exc, 0, FALSE)]
        ELSE IF x.results = <<>>
        THEN [exec |-> x, remote |-> idle,
              result |-> Analysis(FALSE, "No market data available for this date",
                                  0, FALSE)]
        ELSE IF ~rl.can_proceed
        THEN [exec |-> x, remote |-> checked,
              result |-> Analysis(TRUE, "", Len(x.results), FALSE)]
        ELSE [exec |-> x, remote |-> ai.remote,
              result |-> Analysis(TRUE, "", Len(x.results),
                                  ~ai.text.none /\ ai.text.text # "")]

\* analyze_asset_performance
AnalyzeAssetPerformance(asset_symbol, db) ==
    LET x == ExecuteQuery(AssetQuery(asset_symbol), DefaultLimit, db)
    IN  [exec |-> x,
         result |-> IF x.exc # "none" THEN Analysis(FALSE, x.exc, 0, FALSE)
                    ELSE IF x.results = <<>>
                    THEN Analysis(FALSE, "Asset " \o asset_symbol \o " not found",
                                  0, FALSE)
                    ELSE Analysis(TRUE, "", 1, FALSE)]

(***************************************************************************)
(* The callers' inputs and the environment's answers.                      *)
(***************************************************************************)
Inputs ==
    {[prompt |-> Prompt("A", "x"), max_length |-> 200, use_cache |-> TRUE],
     [prompt |-> Prompt("A", "y"), max_length |-> 200, use_cache |-> TRUE],
     [prompt |-> Prompt("A", "x"), max_length |-> 300, use_cache |-> TRUE],
     [prompt |-> Prompt("A", "x"), max_length |-> 200, use_cache |-> FALSE]}
NoResponse == [kind |-> "none", status |-> 0, body |-> NoBody]
\* the answers tried for the request that follows a 503
RetryResponses ==
    {r \in Responses :
        \/ r.kind = "timeout"
        \/ r.kind = "http" /\ r.status = 503
        \/ r.kind = "http" /\ r.body.shape = "not_json"
        \/ r.kind = "http" /\ r.body.shape = "list_text" /\ r.body.text # ""}
Envs ==
    {[resp1 |-> r1, resp2 |-> r2] :
        r1 \in {r \in Responses : IsModelLoading(r)}, r2 \in RetryResponses}
    \cup {[resp1 |-> r1, resp2 |-> NoResponse] :
        r1 \in {r \in Responses : ~IsModelLoading(r)}}

\* what an operation leaves in last
Report(op, prompt, max_length, use_cache, env, o) ==
    [op |-> op, prompt |-> prompt, max_length |-> max_length,
     use_cache |-> use_cache, first |-> env.resp1, second |-> env.resp2,
     pre |-> Self, start |-> now,
     result |-> o.result, raised |-> o.raised, handled |-> o.handled,
     reason |-> o.reason, sent |-> o.sent, at |-> o.at,
     cache_hit |-> o.cache_hit, waited |-> o.waited, slept |-> o.slept]

NoEnv == [resp1 |-> NoResponse, resp2 |-> NoResponse]
Quiet(self, reason, slept) ==
    Outcome(self, None, "none", reason, <<>>, now + slept, FALSE, 0, slept)

Install(self) ==
    /\ requests_today' = self.requests_today
    /\ total_requests_month' = self.total_requests_month
    /\ last_request_time' = self.last_request_time
    /\ last_reset_date' = self.last_reset_date
    /\ cache' = self.cache

\* a caller runs generate_text to its end
Generate ==
    /\ ncalls < MaxCalls
    /\ \E in \in Inputs, env \in Envs :
          LET o == GenerateText(Self, now, in.prompt, in.max_length,
                                in.use_cache, env)
              used == IF Len(o.sent) = 0 THEN NoEnv
                      ELSE IF Len(o.sent) = 1
                      THEN [env EXCEPT !.resp2 = NoResponse] ELSE env
          IN  /\ Install(o.self)
              /\ now' = o.at
              /\ last' = Report("generate", in.prompt, in.max_length,
                               in.use_cache, used, o)
    /\ ncalls' = ncalls + 1
    /\ UNCHANGED <<nticks, guardVars, nlVars, indexVars, callerVars>>

\* a caller asks _check_rate_limits directly (analysis_engine does)
RateCheck ==
    /\ ncalls < MaxCalls
    /\ LET rl == CheckRateLimits(Self, now)
       IN  /\ Install(rl.self)
           /\ now' = now + rl.sleep
           /\ last' = Report("check", Prompt("", ""), 0, FALSE, NoEnv,
                             Quiet(rl.self, rl.reason, rl.sleep))
    /\ ncalls' = ncalls + 1
    /\ UNCHANGED <<nticks, guardVars, nlVars, indexVars, callerVars>>

ResetUsage ==
    /\ ncalls < MaxCalls
    /\ Install(ResetUsageStats(Self))
    /\ last' = Report("reset", Prompt("", ""), 0, FALSE, NoEnv,
                      Quiet(ResetUsageStats(Self), "", 0))
    /\ ncalls' = ncalls + 1
    /\ UNCHANGED <<now, nticks, guardVars, nlVars, indexVars, callerVars>>

ClearCacheCall ==
    /\ ncalls < MaxCalls
    /\ Install(ClearCache(Self))
    /\ last' = Report("clear", Prompt("", ""), 0, FALSE, NoEnv,
                      Quiet(ClearCache(Self), "", 0))
    /\ ncalls' = ncalls + 1
    /\ UNCHANGED <<now, nticks, guardVars, nlVars, indexVars, callerVars>>

\* time passes between two operations: a day, or, when the cache holds an
\* entry, a short pause or the entry's whole time to live
Tick ==
    /\ nticks < MaxTicks
    /\ \E d \in {ShortPauseMs, CacheTtlMs, DayMs} :
          /\ d # DayMs => cache # {}
          /\ now' = now + d
    /\ nticks' = nticks + 1
    /\ UNCHANGED <<hfVars, last, ncalls, guardVars, nlVars, indexVars, callerVars>>

\* what an operation of the query layer leaves in answer
Answer(op, arg, use_ai, cls, generated, judged, exec, result) ==
    [op |-> op, arg |-> arg, use_ai |-> use_ai, cls |-> cls,
     generated |-> generated, verdict |-> judged, exec |-> exec,
     result |-> result, pre |-> Self, start |-> now]
NoClassification == [intent |-> "", confidence |-> 0]
NotGenerated(remote) ==
    [tried_template |-> FALSE, template |-> None, asked_ai |-> FALSE,
     remote |-> remote, sql |-> None, method |-> ""]
NoAnswer ==
    [op |-> "init", arg |-> "", use_ai |-> FALSE, cls |-> NoClassification,
     generated |-> NotGenerated(Outcome([requests_today |-> 0,
                                         total_requests_month |-> 0,
                                         last_request_time |-> NoTime,
                                         last_reset_date |-> 0, cache |-> {}],
                                        None, "none", "", <<>>, 0, FALSE, 0, 0)),
     verdict |-> NoVerdict, exec |-> NotExecuted,
     result |-> Analysis(FALSE, "", 0, FALSE),
     pre |-> [requests_today |-> 0, total_requests_month |-> 0,
              last_request_time |-> NoTime, last_reset_date |-> 0, cache |-> {}],
     start |-> 0]

\* the vector store holds nothing and nothing has been asked of it
NoCollections == [patterns |-> <<>>, anomalies |-> <<>>, events |-> <<>>]
NoFinding == [op |-> "init"]
\* two request handlers share the instance; none has called yet
Callers == {"a", "b"}
NotCalling ==
    [pc |-> "idle", input |-> 0, reg |-> 0, wake |-> 0, retried |-> FALSE,
     text |-> "", calls |-> 0, seen |-> 0]
CallersIdle ==
    /\ callers = [c \in Callers |-> NotCalling]
    /\ issued = [before |-> 0, times |-> <<>>]
IndexIdle ==
    /\ collections = NoCollections
    /\ finding = NoFinding
    /\ nindex = 0

\* nothing has been asked of the query layer
QueryLayerIdle ==
    /\ answer = NoAnswer
    /\ open_connections = 0
    /\ nqueries = 0

\* the instance as constructed, or as found after earlier use: a day that
\* has used all but one of its requests, a month that has
Snapshots ==
    {[requests_today |-> 0, total_requests_month |-> 0, used |-> FALSE],
     [requests_today |-> DailyLimit - 1, total_requests_month |-> DailyLimit - 1,
      used |-> TRUE],
     [requests_today |-> 1, total_requests_month |-> MonthlyLimit - 1,
      used |-> TRUE],
     [requests_today |-> DailyLimit - 1, total_requests_month |-> MonthlyLimit - 1,
      used |-> TRUE]}
StartTimes == {DayMs + DayMs \div 2}

InitLast ==
    [op |-> "init", prompt |-> Prompt("", ""), max_length |-> 0,
     use_cache |-> FALSE, first |-> NoResponse, second |-> NoResponse,
     pre |-> [requests_today |-> 0, total_requests_month |-> 0,
              last_request_time |-> NoTime, last_reset_date |-> 0, cache |-> {}],
     start |-> 0, result |-> None, raised |-> FALSE, handled |-> "none",
     reason |-> "", sent |-> <<>>, at |-> 0, cache_hit |-> FALSE,
     waited |-> 0, slept |-> 0]

\* nothing has been given to _validate_sql
GuardIdle ==
    /\ sql_text = ""
    /\ parse_outcome = "none"
    /\ verdict = NoVerdict

Init ==
    /\ now \in StartTimes
    /\ \E s \in Snapshots :
          /\ requests_today = s.requests_today
          /\ total_requests_month = s.total_requests_month
          /\ last_request_time = IF s.used THEN now - ShortPauseMs ELSE NoTime
    /\ last_reset_date = DateOf(now)
    /\ cache = {}
    /\ last = InitLast
    /\ ncalls = 0
    /\ nticks = 0
    /\ GuardIdle
    /\ QueryLayerIdle
    /\ IndexIdle
    /\ CallersIdle

Next == Generate \/ RateCheck \/ ResetUsage \/ ClearCacheCall \/ Tick

Spec == Init /\ [][Next]_vars

(***************************************************************************)
(* _validate_sql on its own: SpecGuard gives it every text made of at most *)
(* MaxFragments of the fragments below.                                    *)
(***************************************************************************)
MaxFragments == 3
Fragments ==
    {"select", "SeLeCt", "DROP", "delete", "Truncate", "insert", "UPDATE",
     "alter", "Create", "grant", "REVOKE", " ", "\n", "_", "x", "1", ";", "("}

RECURSIVE Concat(_)
Concat(fs) == IF fs = <<>> THEN "" ELSE Head(fs) \o Concat(Tail(fs))
SqlTexts ==
    {Concat(fs) : fs \in UNION {[1..n -> Fragments] : n \in 0..MaxFragments}}

\* the instance as constructed and never asked to generate anything
HfIdle ==
    /\ now \in StartTimes
    /\ requests_today = 0
    /\ total_requests_month = 0
    /\ last_request_time = NoTime
    /\ last_reset_date = DateOf(now)
    /\ cache = {}
    /\ last = InitLast
    /\ ncalls = 0
    /\ nticks = 0

InitGuard ==
    /\ HfIdle
    /\ sql_text \in SqlTexts
    /\ parse_outcome \in ParseOutcomes(sql_text)
    /\ verdict = NoVerdict
    /\ QueryLayerIdle
    /\ IndexIdle
    /\ CallersIdle

Validate ==
    /\ verdict = NoVerdict
    /\ verdict' = ValidateSql(sql_text, parse_outcome)
    /\ UNCHANGED <<hfVars, now, last, ncalls, nticks, sql_text, parse_outcome, nlVars, indexVars, callerVars>>

NextGuard == Validate

SpecGuard == InitGuard /\ [][NextGuard]_vars

(***************************************************************************)
(* The query layer: SpecNL runs process_query and the three other callers  *)
(* of _execute_query on the inputs below.                                  *)
(***************************************************************************)
MaxQueries == 1

Queries ==
    {"Show me the top 5 stocks by return",
     "Show me top 10 stocks",
     "Which stocks have the best return?",
     "Show me unusual market movements",
     "Compare Bitcoin and Ethereum performance",
     "drop vs alter",
     "average return by sector",
     "What moved the market yesterday?"}

\* texts the endpoint generates for a SQL prompt
SqlAnswers ==
    {"SELECT ticker, close_price FROM int_stock_daily_analysis LIMIT 5",
     Fence \o "sql\nSELECT ticker FROM int_stock_daily_analysis;\n" \o Fence,
     "SQL Query: DROP TABLE mart_asset_performance;",
     Fence \o "\n" \o Fence}
TextResponse(text) ==
    [kind |-> "http", status |-> 200,
     body |-> [shape |-> "list_text", text |-> text]]
TimeoutResponse == [kind |-> "timeout", status |-> 0, body |-> NoBody]
LoadingResponse == [kind |-> "http", status |-> 503, body |-> NoBody]
SqlEnvs ==
    {[resp1 |-> r, resp2 |-> NoResponse] :
        r \in {TimeoutResponse} \cup {TextResponse(a) : a \in SqlAnswers}}
    \cup {[resp1 |-> LoadingResponse, resp2 |-> r] :
        r \in {TimeoutResponse,
               TextResponse("SELECT ticker, close_price FROM int_stock_daily_analysis LIMIT 5")}}
ExplainEnvs ==
    {[resp1 |-> r, resp2 |-> NoResponse] :
        r \in {TimeoutResponse, TextResponse("Explanation:  Markets\n rose. "),
               TextResponse("Explanation: ")}}

\* argument values of the three other callers
DayCounts == {7, 30, 0}
Injection ==
    "x'); DROP TABLE public_marts.mart_asset_performance; COMMIT; SELECT ('1"
AssetSymbols == {"AAPL", "btc", Injection}
DateInjection ==
    "2024-01-15'; DELETE FROM public_marts.mart_daily_market_summary; COMMIT; "
    \o "SELECT '1"
Dates == {None, Some(""), Some("2024-01-15"), Some(DateInjection)}

\* the orders in which list(set(...)) can give the assets of a query
ListingsFor(query, intent) ==
    IF ComparesAssets(query, intent)
    THEN Listings(ExtractAssets(Lower(query))) ELSE {<<>>}

\* every SQL text process_query can come to hold for these inputs, and what
\* _validate_sql and _execute_query make of each, worked out once per text
SqlTextsOfModel ==
    {GenerateSqlTemplate(q, QueryIntents[k], l).text :
        <<q, k, l>> \in {x \in Queries \X (1..Len(QueryIntents))
                               \X (UNION {ListingsFor(q, QueryIntents[k]) :
                                            q \in Queries,
                                            k \in 1..Len(QueryIntents)}) :
                            x[3] \in ListingsFor(x[1], QueryIntents[x[2]])}}
    \cup {CleanSql(a) : a \in SqlAnswers}
ValidateSqlOf ==
    [s \in SqlTextsOfModel |->
        [p \in {"none", "statements", "error"} |-> ValidateSql(s, p)]]
WithLimitOf == [s \in SqlTextsOfModel |-> WithLimit(s, DefaultLimit)]
ParseOutcomesOf == [s \in SqlTextsOfModel |-> ParseOutcomes(s)]

\* the connections an operation opened and did not close stay open
Connections(x) == open_connections' = open_connections + x.opened - x.closed

\* a caller runs process_query to its end (a value worked out once is bound
\* with \E over a set of one element); an answer of the endpoint, the parser
\* or the database that the call never asked for is the first of its set
ProcessQueryCall ==
    /\ nqueries < MaxQueries
    /\ \E query \in Queries, use_ai \in BOOLEAN, cls \in Classifications :
       \E listing \in (IF TriesTemplate(use_ai, cls)
                       THEN ListingsFor(query, cls.intent) ELSE {<<>>}) :
       \E tt \in {TryTemplate(query, use_ai, cls, listing)} :
       \E env \in (IF tt.asked_ai THEN SqlEnvs ELSE {NoEnv}) :
       \E g \in {GenerateSql(Self, now, query, tt, env)} :
          /\ (tt.asked_ai /\ g.remote.sent = <<>>)
                => env = CHOOSE e \in SqlEnvs : TRUE
          /\ \E parse \in (IF g.sql.text \in DOMAIN ParseOutcomesOf
                           THEN ParseOutcomesOf[g.sql.text] ELSE {"none"}) :
             \E db \in Databases :
             \E f \in {FinishQuery(g, cls, ValidateSqlOf[g.sql.text][parse],
                                   RunStatement(WithLimitOf[g.sql.text], db))} :
                /\ f.exec = NotExecuted => db = NoDatabase
                /\ Install(g.remote.self)
                /\ now' = g.remote.at
                /\ Connections(f.exec)
                /\ answer' = Answer("process_query", query, use_ai, cls, g,
                                    f.verdict, f.exec, f.result)
    /\ nqueries' = nqueries + 1
    /\ UNCHANGED <<last, ncalls, nticks, guardVars, indexVars, callerVars>>

(***************************************************************************)
(* The vector store's callers: SpecIndex starts from an empty store or     *)
(* from a library built earlier, and lets callers add, search and detect.  *)
(***************************************************************************)
MaxIndexOps == 2
RecordIds == {"r1", "r2"}
Documents == {"flash crash", "sell-off"}
PatternTypes == {"price_pattern"}
EventDates == {"2020-03-16"}
Metadatas == {<<>>, [source |-> "manual"]}
SearchQueries == {"market drop"}
ResultCounts == {0, 1, 2}
PatternFilters == {None, Some("price_pattern")}
SeverityFilters == {None, Some("medium"), Some("severe")}
DateFilters == {None, Some("2010-01-01")}
LibraryTime == DayMs
\* a store as build_libraries leaves it: three anomalies, two patterns, two events
Library ==
    LET a1 == AddAnomaly(NoCollections, "black_monday", "flash crash", "critical",
                         <<>>, LibraryTime, IndexOk)
        a2 == AddAnomaly(a1, "covid_crash", "sell-off", "high", <<>>,
                         LibraryTime, IndexOk)
        a3 == AddAnomaly(a2, "earnings_miss", "earnings", "low", <<>>,
                         LibraryTime, IndexOk)
        p1 == AddMarketPattern(a3, "golden_cross", "rally", "technical_signal",
                               <<>>, LibraryTime, IndexOk)
        p2 == AddMarketPattern(p1, "volume_climax", "sell-off", "price_pattern",
                               <<>>, LibraryTime, IndexOk)
        e1 == AddMarketEvent(p2, "lehman", "flash crash", "2008-09-15", <<>>,
                             LibraryTime, IndexOk)
    IN  AddMarketEvent(e1, "covid", "sell-off", "2020-03-16", <<>>,
                       LibraryTime, IndexOk)

InitIndex ==
    /\ HfIdle
    /\ GuardIdle
    /\ QueryLayerIdle
    /\ collections \in {NoCollections, Library}
    /\ finding = NoFinding
    /\ nindex = 0
    /\ CallersIdle

\* what an add leaves in finding
Added(op, collection, id, description, metadata, env) ==
    [op |-> op, collection |-> collection, id |-> id,
     description |-> description, metadata |-> metadata, env |-> env,
     before |-> collections]
\* what a search leaves in finding
Searched(op, collection, query, n_results, filter, filtered, env, result) ==
    [op |-> op, collection |-> collection, query |-> query,
     n_results |-> n_results, filter |-> filter, filtered |-> filtered,
     env |-> env, result |-> result, store |-> collections]

AddMarketPatternCall ==
    /\ nindex < MaxIndexOps
    /\ \E id \in RecordIds, d \in Documents, type \in PatternTypes,
          md \in Metadatas, env \in IndexEnvs :
          /\ collections' = AddMarketPattern(collections, id, d, type, md, now, env)
          /\ finding' = Added("add", "patterns", id, d,
                              Merge([pattern_type |-> type], md), env)
    /\ nindex' = nindex + 1
    /\ UNCHANGED <<hfVars, now, last, ncalls, nticks, guardVars, nlVars, callerVars>>

AddAnomalyCall ==
    /\ nindex < MaxIndexOps
    /\ \E id \in RecordIds, d \in Documents, severity \in {"low", "high"},
          md \in Metadatas, env \in IndexEnvs :
          /\ collections' = AddAnomaly(collections, id, d, severity, md, now, env)
          /\ finding' = Added("add", "anomalies", id, d,
                              Merge([severity |-> severity], md), env)
    /\ nindex' = nindex + 1
    /\ UNCHANGED <<hfVars, now, last, ncalls, nticks, guardVars, nlVars, callerVars>>

AddMarketEventCall ==
    /\ nindex < MaxIndexOps
    /\ \E id \in RecordIds, d \in Documents, date \in EventDates,
          md \in Metadatas, env \in IndexEnvs :
          /\ collections' = AddMarketEvent(collections, id, d, date, md, now, env)
          /\ finding' = Added("add", "events", id, d,
                              Merge([event_date |-> date], md), env)
    /\ nindex' = nindex + 1
    /\ UNCHANGED <<hfVars, now, last, ncalls, nticks, guardVars, nlVars, callerVars>>

SearchSimilarPatternsCall ==
    /\ nindex < MaxIndexOps
    /\ \E q \in SearchQueries, n \in ResultCounts, type \in PatternFilters,
          env \in IndexEnvs :
       \E result \in SearchSimilarPatterns(collections, q, n, type, env) :
          finding' = Searched("search", "patterns", q, n, <<type>>,
                              ~type.none, env, result)
    /\ nindex' = nindex + 1
    /\ UNCHANGED <<hfVars, now, last, ncalls, nticks, guardVars, nlVars, collections, callerVars>>

SearchSimilarAnomaliesCall ==
    /\ nindex < MaxIndexOps
    /\ \E q \in SearchQueries, n \in ResultCounts, min_severity \in SeverityFilters,
          env \in IndexEnvs :
       \E result \in SearchSimilarAnomalies(collections, q, n, min_severity, env) :
          finding' = Searched("search", "anomalies", q, n, <<min_severity>>,
                              ~min_severity.none, env, result)
    /\ nindex' = nindex + 1
    /\ UNCHANGED <<hfVars, now, last, ncalls, nticks, guardVars, nlVars, collections, callerVars>>

SearchHistoricalEventsCall ==
    /\ nindex < MaxIndexOps
    /\ \E q \in SearchQueries, n \in ResultCounts, date_from \in DateFilters,
          date_to \in DateFilters, env \in IndexEnvs :
       \E result \in SearchHistoricalEvents(collections, q, n, date_from,
                                            date_to, env) :
          finding' = Searched("search", "events", q, n, <<date_from, date_to>>,
                              ~date_from.none \/ ~date_to.none, env, result)
    /\ nindex' = nindex + 1
    /\ UNCHANGED <<hfVars, now, last, ncalls, nticks, guardVars, nlVars, collections, callerVars>>

\* the rows the anomaly query can return: anomaly_score is NaN or beyond
\* the threshold in absolute value
DetectRows(score) == AnomalyRow(score, Float(120))
DetectRowsets ==
    {<<>>,
     <<DetectRows(Float(21000))>>,
     <<DetectRows(Float(40000)), DetectRows(Float(0 - 26000))>>,
     <<DetectRows(Float(30000)), DetectRows(Float(24900))>>,
     <<DetectRows(NaN)>>}
AnomalyDatabases ==
    {db \in Databases : db.rows = <<>>}
    \cup [connect : {"ok"}, cursor : {"ok"}, execute : {"ok"},
          description : {TRUE}, rows : DetectRowsets]
MinSeverities == {"medium", "critical"}
DetectStatementOf ==
    [days \in DayCounts |-> WithLimit(AnomalyQuery(days, AnomalyThreshold), DefaultLimit)]

\* a caller runs detect_recent_anomalies to its end
DetectRecentAnomaliesCall ==
    /\ nqueries < MaxQueries
    /\ nindex < MaxIndexOps
    /\ \E days \in DayCounts, min_severity \in MinSeverities, db \in AnomalyDatabases :
       \E x \in {RunStatement(DetectStatementOf[days], db)} :
       \E r \in DetectRecentAnomalies(days, min_severity, x, collections) :
              /\ Connections(r.exec)
              /\ answer' = Answer("detect_recent_anomalies", IntToStr(days),
                                  FALSE, NoClassification,
                                  NotGenerated(Quiet(Self, "", 0)), NoVerdict,
                                  r.exec,
                                  Analysis(r.result.success, r.result.error,
                                           r.result.anomalies_found, FALSE))
              /\ finding' = [op |-> "detect", days |-> days,
                             min_severity |-> min_severity, rows |-> db.rows,
                             store |-> collections, lookups |-> r.lookups,
                             result |-> r.result]
    /\ nqueries' = nqueries + 1
    /\ nindex' = nindex + 1
    /\ UNCHANGED <<hfVars, now, last, ncalls, nticks, guardVars, collections, callerVars>>

(***************************************************************************)
(* LocalModelManager: the zero-shot classifier and the sentiment model.    *)
(* A score is kept in hundredths.                                          *)
(***************************************************************************)
\* what the zero-shot pipeline does: it raises, or it ranks the candidates
ClassifierRaises == [raises |-> TRUE, labels |-> <<>>, scores |-> <<>>]
Ranked(labels, scores) == [raises |-> FALSE, labels |-> labels, scores |-> scores]
CandidateLists == {QueryIntents, <<"comparison", "data_retrieval">>, <<>>}
ClassifierAnswers(candidates) ==
    {ClassifierRaises}
    \cup (IF Len(candidates) = 0 THEN {Ranked(<<>>, <<>>)}
          ELSE {Ranked(<<candidates[i]>>, <<c>>) :
                    i \in 1..Len(candidates), c \in {40, 90}})

\* classify_query_intent: the keys of the dict it returns that callers read
ClassifyQueryIntent(candidates, pipeline) ==
    IF pipeline.raises \/ Len(pipeline.labels) = 0
    THEN [intent |-> IF Len(candidates) > 0 THEN candidates[1] ELSE "unknown",
          confidence |-> 0, error |-> TRUE]
    ELSE [intent |-> pipeline.labels[1], confidence |-> pipeline.scores[1],
          error |-> FALSE]

\* what the sentiment pipeline does: it raises, or it labels the text
SentimentRaises == [raises |-> TRUE, label |-> "", score |-> 0]
SentimentAnswers ==
    {SentimentRaises}
    \cup [raises : {FALSE}, label : {"positive", "negative", "neutral"},
          score : {55, 60, 80, 95}]

\* analyze_sentiment
AnalyzeSentiment(pipeline) ==
    IF pipeline.raises
    THEN [label |-> "neutral", score |-> 50, confidence |-> "low", error |-> TRUE]
    ELSE [label |-> pipeline.label, score |-> pipeline.score,
          confidence |-> IF pipeline.score > 80 THEN "high"
                         ELSE IF pipeline.score > 60 THEN "medium" ELSE "low",
          error |-> FALSE]

ClassifyQueryIntentCall ==
    /\ nindex < MaxIndexOps
    /\ \E candidates \in CandidateLists :
       \E pipeline \in ClassifierAnswers(candidates) :
          finding' = [op |-> "classify", candidates |-> candidates,
                      pipeline |-> pipeline,
                      result |-> ClassifyQueryIntent(candidates, pipeline)]
    /\ nindex' = nindex + 1
    /\ UNCHANGED <<hfVars, now, last, ncalls, nticks, guardVars, nlVars, collections, callerVars>>

AnalyzeSentimentCall ==
    /\ nindex < MaxIndexOps
    /\ \E pipeline \in SentimentAnswers :
          finding' = [op |-> "sentiment", pipeline |-> pipeline,
                      result |-> AnalyzeSentiment(pipeline)]
    /\ nindex' = nindex + 1
    /\ UNCHANGED <<hfVars, now, last, ncalls, nticks, guardVars, nlVars, collections, callerVars>>

NextIndex ==
    \/ ClassifyQueryIntentCall
    \/ AnalyzeSentimentCall
    \/ AddMarketPatternCall
    \/ AddAnomalyCall
    \/ AddMarketEventCall
    \/ SearchSimilarPatternsCall
    \/ SearchSimilarAnomaliesCall
    \/ SearchHistoricalEventsCall
    \/ DetectRecentAnomaliesCall

SpecIndex == InitIndex /\ [][NextIndex]_vars

\* a caller runs analyze_market_conditions to its end
AnalyzeMarketConditionsCall ==
    /\ nqueries < MaxQueries
    /\ \E date \in Dates, db \in Databases, env \in ExplainEnvs :
       \E r \in {AnalyzeMarketConditions(Self, now, date, db, env)} :
              /\ Len(r.remote.sent) = 0 => env = CHOOSE e \in ExplainEnvs : TRUE
              /\ Install(r.remote.self)
              /\ now' = r.remote.at
              /\ Connections(r.exec)
              /\ answer' = Answer("analyze_market_conditions", date.text, FALSE,
                                  NoClassification, NotGenerated(r.remote),
                                  NoVerdict, r.exec, r.result)
    /\ nqueries' = nqueries + 1
    /\ UNCHANGED <<last, ncalls, nticks, guardVars, indexVars, callerVars>>

\* a caller runs analyze_asset_performance to its end
AnalyzeAssetPerformanceCall ==
    /\ nqueries < MaxQueries
    /\ \E asset_symbol \in AssetSymbols, db \in Databases :
       \E r \in {AnalyzeAssetPerformance(asset_symbol, db)} :
              /\ Connections(r.exec)
              /\ answer' = Answer("analyze_asset_performance", asset_symbol,
                                  FALSE, NoClassification,
                                  NotGenerated(Quiet(Self, "", 0)), NoVerdict,
                                  r.exec, r.result)
    /\ nqueries' = nqueries + 1
    /\ UNCHANGED <<hfVars, now, last, ncalls, nticks, guardVars, indexVars, callerVars>>

(***************************************************************************)
(* generate_text called by two request handlers that share the instance,   *)
(* with no lock: SpecCallers interleaves the calls at the points where a    *)
(* thread can be switched out (the sleep, the request, and between the      *)
(* load and the store of each counter's += 1).                              *)
(***************************************************************************)
MaxCallerCalls == 2
CallerInputs ==
    <<[prompt |-> Prompt("A", "x"), max_length |-> 200, use_cache |-> TRUE],
      [prompt |-> Prompt("A", "y"), max_length |-> 200, use_cache |-> FALSE]>>
\* what the endpoint answers a handler: a generation or nothing in time
CallerResponses == {TextResponse("t1"), TimeoutResponse}
CallerKey(in) ==
    GetCacheKey(in.prompt, [max_new_tokens |-> in.max_length,
                            temperature |-> Temperature])
Later(t) == IF now < t THEN t ELSE now

\* (mutant) generate_text going on to the request whatever the check says
BeginCallUnchecked(self, t, in) ==
    LET cc == IF in.use_cache THEN CheckCache(self.cache, CallerKey(in), t)
              ELSE [cache |-> self.cache, data |-> None]
        s1 == [self EXCEPT !.cache = cc.cache]
        rl == CheckRateLimits(s1, t)
    IN  IF in.use_cache /\ ~cc.data.none /\ cc.data.text # ""
        THEN [self |-> s1, pc |-> "done", wake |-> t, text |-> cc.data.text,
              seen |-> s1.requests_today]
        ELSE [self |-> rl.self, pc |-> "post", wake |-> t + rl.sleep, text |-> "",
              seen |-> rl.self.requests_today]

\* generate_text up to the request: the cache check and _check_rate_limits
\* with its sleep; the instance after them, where the caller goes on, when
\* it wakes, and the requests_today the check saw
BeginCall(self, t, in) ==
    LET cc == IF in.use_cache THEN CheckCache(self.cache, CallerKey(in), t)
              ELSE [cache |-> self.cache, data |-> None]
        s1 == [self EXCEPT !.cache = cc.cache]
        rl == CheckRateLimits(s1, t)
    IN  IF in.use_cache /\ ~cc.data.none /\ cc.data.text # ""
        THEN [self |-> s1, pc |-> "done", wake |-> t, text |-> cc.data.text,
              seen |-> s1.requests_today]
        ELSE IF ~rl.can_proceed
        THEN [self |-> rl.self, pc |-> "done", wake |-> t, text |-> "",
              seen |-> rl.self.requests_today]
        ELSE [self |-> rl.self, pc |-> "post", wake |-> t + rl.sleep, text |-> "",
              seen |-> rl.self.requests_today]

InitCallers ==
    /\ now \in StartTimes
    /\ \E s \in Snapshots :
          /\ requests_today = s.requests_today
          /\ total_requests_month = s.total_requests_month
          /\ last_request_time = IF s.used THEN now - ShortPauseMs ELSE NoTime
    /\ last_reset_date = DateOf(now)
    /\ cache = {}
    /\ last = InitLast
    /\ ncalls = 0
    /\ nticks = 0
    /\ GuardIdle
    /\ QueryLayerIdle
    /\ IndexIdle
    /\ callers = [c \in Callers |-> NotCalling]
    /\ issued = [before |-> requests_today, times |-> <<>>]

\* a handler calls generate_text: lines 96-113
CallerBegins ==
    \E c \in Callers, i \in 1..Len(CallerInputs) :
        /\ callers[c].pc \in {"idle", "done"}
        /\ callers[c].calls < MaxCallerCalls
        /\ \E b \in {BeginCall(Self, now, CallerInputs[i])} :
              /\ Install(b.self)
              /\ callers' = [callers EXCEPT ![c] =
                                [pc |-> b.pc, input |-> i, reg |-> 0, wake |-> b.wake,
                                 retried |-> FALSE, text |-> b.text,
                                 calls |-> callers[c].calls + 1, seen |-> b.seen]]
        /\ UNCHANGED <<now, issued, last, ncalls, nticks, guardVars, nlVars, indexVars>>

\* requests.post, once the sleep of the check is over: lines 127-135
CallerPosts ==
    \E c \in Callers, r \in CallerResponses :
        /\ callers[c].pc = "post"
        /\ now' = Later(callers[c].wake)
        /\ issued' = [issued EXCEPT !.times = Append(@, now')]
        /\ callers' = [callers EXCEPT ![c] =
              IF PostRaises(r) # "none"
              THEN [@ EXCEPT !.pc = "done"]
              ELSE IF IsModelLoading(r) /\ ~callers[c].retried
              THEN [@ EXCEPT !.retried = TRUE,
                             !.wake = now' + Latency(r) + LoadingWaitMs]
              ELSE IF RaiseForStatus(r) # "none"
              THEN [@ EXCEPT !.pc = "done"]
              ELSE [@ EXCEPT !.pc = "load_today", !.wake = now' + Latency(r),
                             !.text = r.body.text]]
        /\ UNCHANGED <<hfVars, last, ncalls, nticks, guardVars, nlVars, indexVars>>

\* self.requests_today += 1, the load: line 139
CallerLoadsToday ==
    \E c \in Callers :
        /\ callers[c].pc = "load_today"
        /\ now' = Later(callers[c].wake)
        /\ callers' = [callers EXCEPT ![c].pc = "store_today",
                                      ![c].reg = requests_today]
        /\ UNCHANGED <<hfVars, issued, last, ncalls, nticks, guardVars, nlVars, indexVars>>

\* self.requests_today += 1, the store: line 139
CallerStoresToday ==
    \E c \in Callers :
        /\ callers[c].pc = "store_today"
        /\ requests_today' = callers[c].reg + 1
        /\ callers' = [callers EXCEPT ![c].pc = "load_month"]
        /\ UNCHANGED <<total_requests_month, last_request_time, last_reset_date,
                       cache, now, issued, last, ncalls, nticks, guardVars, nlVars,
                       indexVars>>

\* self.total_requests_month += 1, the load: line 140
CallerLoadsMonth ==
    \E c \in Callers :
        /\ callers[c].pc = "load_month"
        /\ callers' = [callers EXCEPT ![c].pc = "store_month",
                                      ![c].reg = total_requests_month]
        /\ UNCHANGED <<hfVars, now, issued, last, ncalls, nticks, guardVars, nlVars,
                       indexVars>>

\* self.total_requests_month += 1, the store: line 140
CallerStoresMonth ==
    \E c \in Callers :
        /\ callers[c].pc = "store_month"
        /\ total_requests_month' = callers[c].reg + 1
        /\ callers' = [callers EXCEPT ![c].pc = "stamp"]
        /\ UNCHANGED <<requests_today, last_request_time, last_reset_date, cache,
                       now, issued, last, ncalls, nticks, guardVars, nlVars,
                       indexVars>>

\* last_request_time, the reading of the body and the cache: lines 141-154
CallerStamps ==
    \E c \in Callers :
        /\ callers[c].pc = "stamp"
        /\ last_request_time' = now
        /\ cache' = IF CallerInputs[callers[c].input].use_cache
                       /\ callers[c].text # ""
                    THEN CachePut(cache, CallerKey(CallerInputs[callers[c].input]),
                                  callers[c].text, now)
                    ELSE cache
        /\ callers' = [callers EXCEPT ![c].pc = "done"]
        /\ UNCHANGED <<requests_today, total_requests_month, last_reset_date, now,
                       issued, last, ncalls, nticks, guardVars, nlVars, indexVars>>

NextCallers ==
    \/ CallerBegins
    \/ CallerPosts
    \/ CallerLoadsToday
    \/ CallerStoresToday
    \/ CallerLoadsMonth
    \/ CallerStoresMonth
    \/ CallerStamps

SpecCallers == InitCallers /\ [][NextCallers]_vars

(***************************************************************************)
(* FinancialAnalysisEngine.generate_insight: SpecInsight runs it on the    *)
(* inputs of process_query, over an empty or a filled vector store.        *)
(***************************************************************************)
\* _generate_simple_insight
GenerateSimpleInsight(row_count, intent) ==
    IF row_count = 0 THEN "No data found matching your query criteria."
    ELSE IF intent = "comparison"
    THEN "Found " \o IntToStr(row_count)
         \o " items for comparison. Review the metrics to identify differences."
    ELSE IF intent = "aggregation"
    THEN "Aggregated data across " \o IntToStr(row_count)
         \o " categories. Check the averages and totals."
    ELSE IF intent = "data_retrieval"
    THEN "Retrieved " \o IntToStr(row_count) \o " records matching your criteria."
    ELSE "Query returned " \o IntToStr(row_count) \o " results."

\* the dict generate_insight returns: process_query's, and the keys it adds
\* (a key it does not add is None)
Insight(query_result, related_patterns, ai_insight, insight) ==
    [success |-> query_result.success, error |-> query_result.error,
     row_count |-> query_result.row_count, intent |-> query_result.intent,
     related_patterns |-> related_patterns, ai_insight |-> ai_insight,
     insight |-> insight]

\* generate_insight after its process_query returned query_result, the
\* instance being self at time t; related is what search_similar_patterns
\* answers when it is asked
GenerateInsight(self, t, use_ai, query_result, related, env) ==
    LET idle == Outcome(self, None, "none", "", <<>>, t, FALSE, 0, 0)
        rl == CheckRateLimits(self, t)
        checked == Outcome(rl.self, None, "none", rl.reason, <<>>, t + rl.sleep,
                           FALSE, 0, rl.sleep)
        ai == ExplainFinancialPattern(rl.self, t + rl.sleep, env)
        patterns == IF Len(query_result.results) > 0 THEN related ELSE <<>>
        simple == Some(GenerateSimpleInsight(query_result.row_count,
                                             query_result.intent))
    IN  IF ~query_result.success
        THEN [remote |-> idle, result |-> Insight(query_result, <<>>, None, None)]
        ELSE IF ~(use_ai /\ query_result.row_count > 0)
        THEN [remote |-> idle,
              result |-> Insight(query_result, patterns, None, simple)]
        ELSE IF ~rl.can_proceed
        THEN [remote |-> checked,
              result |-> Insight(query_result, patterns, None, simple)]
        ELSE [remote |-> ai.remote,
              result |-> Insight(query_result, patterns,
                                 IF ~ai.text.none /\ ai.text.text # ""
                                 THEN ai.text ELSE None,
                                 None)]

InsightWanted == 3
InitInsight ==
    /\ now \in StartTimes
    /\ \E s \in Snapshots :
          /\ requests_today = s.requests_today
          /\ total_requests_month = s.total_requests_month
          /\ last_request_time = IF s.used THEN now - ShortPauseMs ELSE NoTime
    /\ last_reset_date = DateOf(now)
    /\ cache = {}
    /\ last = InitLast
    /\ ncalls = 0
    /\ nticks = 0
    /\ GuardIdle
    /\ QueryLayerIdle
    /\ collections \in {NoCollections, Library}
    /\ finding = NoFinding
    /\ nindex = 0
    /\ CallersIdle

\* a caller runs generate_insight to its end
GenerateInsightCall ==
    /\ nqueries < MaxQueries
    /\ \E query \in Queries, use_ai \in BOOLEAN, cls \in Classifications :
       \E listing \in (IF TriesTemplate(use_ai, cls)
                       THEN ListingsFor(query, cls.intent) ELSE {<<>>}) :
       \E tt \in {TryTemplate(query, use_ai, cls, listing)} :
       \E env \in (IF tt.asked_ai THEN SqlEnvs ELSE {NoEnv}) :
       \E g \in {GenerateSql(Self, now, query, tt, env)} :
          /\ (tt.asked_ai /\ g.remote.sent = <<>>)
                => env = CHOOSE e \in SqlEnvs : TRUE
          /\ \E parse \in (IF g.sql.text \in DOMAIN ParseOutcomesOf
                           THEN ParseOutcomesOf[g.sql.text] ELSE {"none"}) :
             \E db \in Databases :
             \E f \in {FinishQuery(g, cls, ValidateSqlOf[g.sql.text][parse],
                                   RunStatement(WithLimitOf[g.sql.text], db))} :
             \E ienv \in IndexEnvs, env2 \in ExplainEnvs :
             \E related \in SearchSimilarPatterns(collections, "Analysis", InsightWanted,
                                                  None, ienv) :
             \E r \in {GenerateInsight(g.remote.self, g.remote.at, use_ai,
                                       f.result, related, env2)} :
                /\ f.exec = NotExecuted => db = NoDatabase
                /\ Len(f.result.results) = 0 => ienv = IndexOk
                /\ Len(r.remote.sent) = 0 => env2 = CHOOSE e \in ExplainEnvs : TRUE
                /\ Install(r.remote.self)
                /\ now' = r.remote.at
                /\ Connections(f.exec)
                /\ answer' = Answer("generate_insight", query, use_ai, cls, g,
                                    f.verdict, f.exec, r.result)
    /\ nqueries' = nqueries + 1
    /\ UNCHANGED <<last, ncalls, nticks, guardVars, indexVars, callerVars>>

NextInsight == GenerateInsightCall

SpecInsight == InitInsight /\ [][NextInsight]_vars

NextNL ==
    \/ ProcessQueryCall
    \/ DetectRecentAnomaliesCall
    \/ AnalyzeMarketConditionsCall
    \/ AnalyzeAssetPerformanceCall

SpecNL == Init /\ [][NextNL]_vars

(***************************************************************************)
(* Properties of HuggingFaceAPI, checked under Spec.                       *)
(***************************************************************************)
IsGenerate == last.op = "generate"
\* the response generate_text went on with: the retry's when there was one
FinalResponse == IF Len(last.sent) = 2 THEN last.second ELSE last.first
ReturnedText == ~last.result.none /\ last.result.text # ""
LastKey ==
    GetCacheKey(last.prompt,
                [max_new_tokens |-> last.max_length, temperature |-> Temperature])
\* requests_today as the rate-limit check of the latest call left it
TodayAfterCheck ==
    IF DateOf(last.start) # last.pre.last_reset_date THEN 0
    ELSE last.pre.requests_today

\* the call's last request came back with a status raise_for_status accepts
RequestAccepted ==
    /\ Len(last.sent) > 0
    /\ FinalResponse.kind = "http" /\ FinalResponse.status < 400

\* C4: once requests_today has reached the daily limit on the current date,
\* a generate call that is not served from the cache returns nothing,
\* sends no request and gives the reason "Daily limit reached"; a call that
\* finds the monthly limit reached likewise returns nothing and sends
\* nothing, with the reason "Monthly limit reached" unless the daily limit
\* is reached too.
C4_CapsBlockWithoutRequest ==
    (IsGenerate /\ ~last.cache_hit) =>
        /\ (/\ last.pre.requests_today >= DailyLimit
            /\ last.pre.last_reset_date = DateOf(last.start))
           => (/\ last.result = None
               /\ last.sent = <<>>
               /\ last.reason = "Daily limit reached")
        /\ last.pre.total_requests_month >= MonthlyLimit
           => (/\ last.result = None
               /\ last.sent = <<>>
               /\ last.reason = IF TodayAfterCheck >= DailyLimit
                                THEN "Daily limit reached"
                                ELSE "Monthly limit reached")
C4_Witness ==
    /\ IsGenerate /\ ~last.cache_hit
    /\ last.pre.requests_today >= DailyLimit
    /\ last.pre.last_reset_date = DateOf(last.start)
    /\ last.pre.total_requests_month < MonthlyLimit
    /\ last.reason = "Daily limit reached"

\* two generate calls in a row (only time passes between them) with the same
\* prompt and max_length, both with caching, the second starting less than
\* the cache's time to live after the first returned
TwoIdenticalCalls ==
    /\ IsGenerate /\ last.use_cache
    /\ ncalls' = ncalls + 1
    /\ last'.op = "generate" /\ last'.use_cache
    /\ last'.prompt = last.prompt /\ last'.max_length = last.max_length
    /\ last'.start - last.at < CacheTtlMs

\* C5 (as stated): two identical generate calls with caching, made within
\* the cache's time to live, the first of which returned text, make exactly
\* one network request between them, and the second returns the first
\* call's text from the cache.
C5_ExactlyOneRequest ==
    [][(TwoIdenticalCalls /\ ReturnedText) =>
          /\ Len(last.sent) + Len(last'.sent) = 1
          /\ last'.cache_hit
          /\ last'.result = last.result]_vars

\* C5 (amended): when the first of the two calls got non-empty text from
\* the endpoint, the second call sends no request and returns that text
\* from the cache; the requests of the pair are those of the first call:
\* one, or two when its first response was a 503.
C5_SecondCallServedFromCache ==
    [][(TwoIdenticalCalls /\ ReturnedText /\ ~last.cache_hit) =>
          /\ last'.sent = <<>>
          /\ last'.cache_hit
          /\ last'.result = last.result
          /\ Len(last.sent) \in {1, 2}
          /\ (Len(last.sent) = 2 <=>
                (last.first.kind = "http" /\ last.first.status = 503))]_vars
C5_Witness ==
    /\ IsGenerate /\ last.cache_hit /\ last.use_cache
    /\ last.sent = <<>>
    /\ last.start > last.pre.last_request_time
    /\ \E e \in cache : e.key = LastKey /\ e.text = last.result.text
                        /\ last.start - e.time < CacheTtlMs
                        /\ last.start - e.time > 0

\* C6: requests_today never exceeds the daily limit and requests_month
\* never exceeds the monthly limit.
C6_CountersWithinCaps ==
    /\ requests_today <= DailyLimit
    /\ total_requests_month <= MonthlyLimit
C6_Witness ==
    /\ IsGenerate /\ Len(last.sent) > 0 /\ ~last.result.none
    /\ requests_today = DailyLimit
    /\ total_requests_month = MonthlyLimit

\* C7: the first rate-limit check after the date has changed sets
\* requests_today to 0 before it compares the daily cap, so the check does
\* not answer "Daily limit reached" and the call may go on (leaving
\* requests_today at 0, or at 1 once its request is counted);
\* requests_month is lowered by reset_usage_stats alone.
C7_DailyResetOnDateChange ==
    /\ (/\ last.op \in {"generate", "check"} /\ ~last.cache_hit
        /\ DateOf(last.start) # last.pre.last_reset_date)
       => /\ last_reset_date = DateOf(last.start)
          /\ last.reason # "Daily limit reached"
          /\ requests_today = IF RequestAccepted THEN 1 ELSE 0
          /\ (last.pre.total_requests_month < MonthlyLimit /\ IsGenerate
                => Len(last.sent) > 0)
    /\ last.op # "reset" => total_requests_month >= last.pre.total_requests_month
    /\ last.op = "reset" => requests_today = 0 /\ total_requests_month = 0
C7_Witness ==
    /\ IsGenerate
    /\ last.pre.requests_today >= DailyLimit
    /\ DateOf(last.start) # last.pre.last_reset_date
    /\ Len(last.sent) > 0
    /\ requests_today = 1
    /\ total_requests_month = last.pre.total_requests_month + 1

\* whether a response makes generate_text return nothing
Fails(r) ==
    \/ r.kind \in {"timeout", "connection_error"}
    \/ r.kind = "http" /\ r.status >= 400
    \/ r.kind = "http"
       /\ r.body.shape \in {"empty_list", "dict", "not_json", "list_nondict"}

\* C8: one generate call sends at most two requests; it sends the second
\* exactly when the first response had status 503, LoadingWaitMs after that
\* response arrived; when the second fails as well the call returns nothing.
C8_AtMostOneRetry ==
    IsGenerate =>
        /\ Len(last.sent) <= 2
        /\ (Len(last.sent) = 2 <=>
              (last.first.kind = "http" /\ last.first.status = 503))
        /\ Len(last.sent) = 2 =>
              /\ last.sent[2] = last.sent[1] + NetLatencyMs + LoadingWaitMs
              /\ last.waited = LoadingWaitMs
              /\ last.at = last.sent[2] + Latency(last.second)
              /\ (Fails(last.second) => last.result = None)
        /\ Len(last.sent) < 2 => last.waited = 0
C8_Witness ==
    /\ IsGenerate /\ Len(last.sent) = 2
    /\ last.second.kind = "http" /\ last.second.status = 503
    /\ last.result = None

\* C9: generate_text lets no exception out: after a timeout, a transport
\* error, an HTTP error status or a malformed body it returns nothing.
C9_NeverRaises ==
    IsGenerate =>
        /\ ~last.raised
        /\ (Len(last.sent) > 0 /\ Fails(FinalResponse)) => last.result = None
C9_Witness ==
    /\ IsGenerate /\ Len(last.sent) > 0
    /\ FinalResponse.kind = "http" /\ FinalResponse.status = 200
    /\ FinalResponse.body.shape = "list_nondict"
    /\ last.handled = "except Exception"
    /\ last.result = None

\* a call that returned what the endpoint generated
ReturnedFromEndpoint == IsGenerate /\ Len(last.sent) > 0 /\ ~last.result.none
CountedOnce ==
    /\ requests_today = TodayAfterCheck + 1
    /\ total_requests_month = last.pre.total_requests_month + 1
    /\ last_request_time = last.at
    /\ last.start <= last.at /\ last.at <= now
    /\ last.result = Some(FinalResponse.body.text)
Cached(text) ==
    \E e \in cache : e.key = LastKey /\ e.text = text /\ e.time = last.at

\* C10 (as stated): a call that succeeds through the endpoint counts one
\* request in each counter (also after the 503 retry), sets
\* last_request_time, stores the text in the cache if caching was requested
\* and returns the text.
C10_SuccessCountsAndCaches ==
    ReturnedFromEndpoint =>
        /\ CountedOnce
        /\ last.use_cache => Cached(last.result.text)

\* C10 (amended): as stated, but the text is stored in the cache only if
\* caching was requested and the text is not empty; an empty text is
\* returned and counted but not cached.
C10_SuccessCountsAndCachesNonEmpty ==
    ReturnedFromEndpoint =>
        /\ CountedOnce
        /\ (last.use_cache /\ last.result.text # "")
              => Cached(last.result.text)
        /\ (~last.use_cache \/ last.result.text = "")
              => /\ ~HasKey(cache \ last.pre.cache, LastKey)
                 /\ cache \subseteq last.pre.cache
C10_Witness ==
    /\ ReturnedFromEndpoint /\ Len(last.sent) = 2
    /\ last.use_cache /\ last.result.text # ""
    /\ Cached(last.result.text)
    /\ requests_today = last.pre.requests_today + 1

(***************************************************************************)
(* Properties of _validate_sql, checked under SpecGuard.                   *)
(***************************************************************************)
\* the words of s: its runs of word characters that no word character
\* precedes or follows
WordStarts(s) ==
    {i \in 1..Len(s) : /\ IsWordChar(CharAt(s, i))
                       /\ (i = 1 \/ ~IsWordChar(CharAt(s, i - 1)))}
WordEnds(s) ==
    {j \in 1..Len(s) : /\ IsWordChar(CharAt(s, j))
                       /\ (j = Len(s) \/ ~IsWordChar(CharAt(s, j + 1)))}
WordsOf(s) ==
    LET ends == WordEnds(s)
    IN  {SubSeq(s, i, CHOOSE j \in ends : j >= i /\ \A k \in ends : k >= i => j <= k) :
            i \in WordStarts(s)}
Denylist == {DangerousKeywords[k] : k \in 1..Len(DangerousKeywords)}
ContainsDenylistedWord(s) == \E w \in WordsOf(s) : Lower(w) \in Denylist
BeginsWithSelect(s) ==
    LET t == Strip(s)
    IN  Len(t) >= 6 /\ Lower(SubSeq(t, 1, 6)) = "select"
Validated == verdict # NoVerdict

\* C1: _validate_sql returns is_valid = False for every text that holds one
\* of the nine denylisted keywords as a whole word, in any letter case and
\* at any position, and for every text that, trimmed, does not begin with
\* "select" in any letter case.
C1_GuardRejects ==
    Validated =>
        /\ ContainsDenylistedWord(sql_text) => ~verdict.is_valid
        /\ ~BeginsWithSelect(sql_text) => ~verdict.is_valid
C1_Witness ==
    /\ Validated
    /\ BeginsWithSelect(sql_text)
    /\ ContainsDenylistedWord(sql_text)
    /\ sql_text # Lower(sql_text)
    /\ parse_outcome = "statements"
    /\ verdict = Verdict(FALSE, "Dangerous keyword 'drop' not allowed")

(***************************************************************************)
(* Properties of the query layer, checked under SpecNL.                    *)
(***************************************************************************)
IsProcessQuery == answer.op = "process_query"
HasSql == ~answer.generated.sql.none /\ answer.generated.sql.text # ""
\* _execute_query was called: it tried to connect
ExecutorInvoked == answer.exec # NotExecuted
Rejected == HasSql /\ ~answer.verdict.is_valid

\* C2: process_query calls _execute_query only for SQL that _validate_sql
\* accepted; when _validate_sql rejects the generated SQL, the call opens no
\* connection and executes no statement, and it returns success = False with
\* the rejected SQL under the key sql.
C2_ExecuteOnlyAfterGuard ==
    IsProcessQuery =>
        /\ ExecutorInvoked => (HasSql /\ answer.verdict.is_valid)
        /\ Rejected =>
              /\ answer.exec.statements = <<>>
              /\ answer.exec.opened = 0
              /\ ~answer.result.success
              /\ "sql" \in answer.result.keys
              /\ answer.result.sql = answer.generated.sql
C2_Witness ==
    /\ IsProcessQuery
    /\ Rejected
    /\ answer.generated.method = "template"
    /\ answer.verdict.error = "Dangerous keyword 'drop' not allowed"
    /\ ContainsDenylistedWord(answer.generated.sql.text)
    /\ ~answer.result.success
    /\ answer.result.sql = answer.generated.sql

\* a read-only SELECT: the statement begins with select once trimmed, in any
\* letter case, and holds no denylisted keyword as a whole word
ReadOnlySelect(statement) ==
    BeginsWithSelect(statement) /\ ~ContainsDenylistedWord(statement)

\* C3: every statement that process_query, detect_recent_anomalies,
\* analyze_market_conditions or analyze_asset_performance hands to
\* cursor.execute, whatever the caller's query text, days, date or
\* asset_symbol, is a read-only SELECT.
C3_OnlyReadOnlySelects ==
    \A i \in 1..Len(answer.exec.statements) :
        ReadOnlySelect(answer.exec.statements[i])

(***************************************************************************)
(* Spacing of the network requests of HuggingFaceAPI, checked under Spec.  *)
(***************************************************************************)
\* the times of the requests of one operation are at least MinSpacingMs apart
SpacedWithin(sent) ==
    \A i \in 1..Len(sent) - 1 : sent[i + 1] - sent[i] >= MinSpacingMs
\* a step in which a generate call that sent a request follows, with no
\* other operation in between, a generate call that sent one
ConsecutiveRequests ==
    /\ last.op = "generate" /\ last.sent # <<>>
    /\ last'.op = "generate" /\ last'.sent # <<>>
    /\ last' # last

\* C11: two consecutive network requests are never sent less than one
\* second apart, within one generate call and from one call to the next.
C11_MinSpacingBetweenRequests ==
    [][/\ (last'.op = "generate" => SpacedWithin(last'.sent))
       /\ (ConsecutiveRequests =>
              last'.sent[1] - last.sent[Len(last.sent)] >= MinSpacingMs)]_vars
(***************************************************************************)
(* Properties of the dict process_query returns, checked under SpecNL.     *)
(***************************************************************************)
\* C12: in every dict process_query returns, row_count is the number of rows
\* in results: a successful result has both keys, results holds the rows the
\* executor fetched and row_count is their number; a failed result has
\* neither key (no rows, and a row_count read with a default of 0).
C12_RowCountIsLenRows ==
    IsProcessQuery =>
        /\ answer.result.row_count = Len(answer.result.results)
        /\ ("row_count" \in answer.result.keys) <=> ("results" \in answer.result.keys)
        /\ answer.result.success =>
              /\ "row_count" \in answer.result.keys
              /\ answer.result.results = answer.exec.results
C12_Witness ==
    /\ IsProcessQuery
    /\ answer.result.success
    /\ Len(answer.exec.results) = 2
    /\ answer.result.row_count = 2

\* process_query ended with no SQL text: no template matched and the remote
\* model was not asked, gave None, or gave text that cleans to nothing
NoSqlProduced == IsProcessQuery /\ ~HasSql
\* the remote model was not called and the instance is as it was
RemoteUntouched ==
    /\ ~answer.generated.asked_ai
    /\ answer.generated.remote.sent = <<>>
    /\ answer.generated.remote.self = answer.pre
    /\ Self = answer.pre

\* C13: when process_query produces no SQL it returns (it does not raise)
\* success = False with the rephrase suggestion, executes nothing, and has
\* asked the remote model at most once (one generate_text call: one request,
\* or two when the first was answered 503); with use_ai = False the remote
\* model is never called.
C13_NoSqlFailsWithSuggestion ==
    /\ NoSqlProduced =>
          /\ ~answer.generated.remote.raised
          /\ ~answer.result.success
          /\ answer.result.error = "Could not generate SQL query"
          /\ "suggestion" \in answer.result.keys
          /\ answer.exec = NotExecuted
          /\ Len(answer.generated.remote.sent) <= 2
          /\ Len(answer.generated.remote.sent) = 2
                => answer.generated.remote.waited = LoadingWaitMs
          /\ ~answer.generated.asked_ai => answer.generated.remote.sent = <<>>
    /\ (IsProcessQuery /\ ~answer.use_ai) => RemoteUntouched
C13_Witness ==
    /\ NoSqlProduced
    /\ answer.use_ai
    /\ answer.generated.tried_template
    /\ answer.generated.asked_ai
    /\ Len(answer.generated.remote.sent) = 2
    /\ ~answer.result.success
    /\ "suggestion" \in answer.result.keys

(***************************************************************************)
(* _classify_anomalies on its own: SpecSeverity gives it every list of at  *)
(* most MaxRows of the rows below.                                         *)
(***************************************************************************)
MaxRows == 2
\* anomaly_score values around the thresholds, of both signs, and NaN
Scores ==
    {Float(24900), Float(25000), Float(29900), Float(30000), Float(39900),
     Float(40000), Float(0 - 26000), Float(0 - 45000), Float(21000), NaN}
\* daily_return values for rows whose anomaly_score is 0
Returns == {Float(249), Float(250), Float(0 - 300), Float(400), Float(0), NaN}
ScoredRows == {AnomalyRow(sc, Float(120)) : sc \in Scores}
UnscoredRows == {AnomalyRow(Float(0), r) : r \in Returns}
AnomalyLists ==
    UNION {[1..n -> ScoredRows \cup UnscoredRows] : n \in 0..MaxRows}

InitSeverity ==
    /\ HfIdle
    /\ GuardIdle
    /\ QueryLayerIdle
    /\ collections = NoCollections
    /\ nindex = 0
    /\ CallersIdle
    /\ finding \in {[op |-> "anomalies", anomalies |-> l] : l \in AnomalyLists}

ClassifyCall ==
    /\ finding.op = "anomalies"
    /\ finding' = [op |-> "classified", anomalies |-> finding.anomalies,
                   classified |-> ClassifyAnomalies(finding.anomalies)]
    /\ UNCHANGED <<hfVars, now, last, ncalls, nticks, guardVars, nlVars,
                   collections, nindex, callerVars>>

NextSeverity == ClassifyCall

SpecSeverity == InitSeverity /\ [][NextSeverity]_vars

(***************************************************************************)
(* Properties of _classify_anomalies, checked under SpecSeverity.          *)
(***************************************************************************)
SeverityOrder == <<"low", "medium", "high", "critical">>
Rank(severity) == CHOOSE k \in 1..Len(SeverityOrder) : SeverityOrder[k] = severity
HasClassified == finding.op = "classified"
ClassifiedAnomalies ==
    {finding.classified[i] : i \in 1..Len(finding.classified)}
\* the severity of a is the one its z_score_abs has in the four bands
InBands(a) ==
    /\ a.severity = "critical" <=> FGe(a.z_score_abs, Float(40000))
    /\ a.severity = "high" <=> (FGe(a.z_score_abs, Float(30000))
                                 /\ FLt(a.z_score_abs, Float(40000)))
    /\ a.severity = "medium" <=> (FGe(a.z_score_abs, Float(25000))
                                   /\ FLt(a.z_score_abs, Float(30000)))
\* severity never decreases as z_score_abs grows
Monotonic ==
    \A a, b \in ClassifiedAnomalies :
        (~a.z_score_abs.nan /\ ~b.z_score_abs.nan
            /\ a.z_score_abs.v <= b.z_score_abs.v)
            => Rank(a.severity) <= Rank(b.severity)
SeverityKnown ==
    \A a \in ClassifiedAnomalies :
        \E k \in 1..Len(SeverityOrder) : SeverityOrder[k] = a.severity

\* C14 as stated: severity is critical iff z >= 4.0, high iff 3.0 <= z < 4.0,
\* medium iff 2.5 <= z < 3.0 and low iff z < 2.5, and it is monotonic in z.
C14_SeverityBands ==
    HasClassified =>
        /\ SeverityKnown
        /\ \A a \in ClassifiedAnomalies :
              /\ InBands(a)
              /\ a.severity = "low" <=> FLt(a.z_score_abs, Float(25000))
        /\ Monotonic

\* C14 (amended): the same bands, except that low is every z_score_abs that
\* is not >= 2.5: the values below 2.5 and NaN; over the values that are
\* numbers severity is monotonic in z.
C14_SeverityBandsOrNaN ==
    HasClassified =>
        /\ SeverityKnown
        /\ \A a \in ClassifiedAnomalies :
              /\ InBands(a)
              /\ a.severity = "low" <=> (a.z_score_abs.nan
                                          \/ FLt(a.z_score_abs, Float(25000)))
        /\ Monotonic
C14_Witness ==
    /\ HasClassified
    /\ \E a, b \in ClassifiedAnomalies :
          /\ a.z_score_abs.nan /\ a.severity = "low"
          /\ b.z_score_abs = Float(30000) /\ b.severity = "high"
          /\ FEq(b.anomaly_score, Float(0))

(***************************************************************************)
(* Properties of detect_recent_anomalies, checked under SpecIndex.         *)
(***************************************************************************)
IsDetect == finding.op = "detect"
\* the anomaly query ran and the database returned no row
ZeroRows ==
    /\ IsDetect
    /\ Len(answer.exec.statements) = 1
    /\ answer.exec.exc = "none"
    /\ answer.exec.results = <<>>

\* C15: when the anomaly query returns zero rows, detect_recent_anomalies
\* returns success = True and anomalies_found = 0 with no error, and makes no
\* search in the vector store.
C15_ZeroRowsIsSuccess ==
    ZeroRows =>
        /\ finding.result.success
        /\ finding.result.anomalies_found = 0
        /\ {"success", "anomalies_found"} \subseteq finding.result.keys
        /\ "error" \notin finding.result.keys
        /\ finding.lookups = 0
C15_Witness ==
    /\ ZeroRows
    /\ finding.store = Library
    /\ finding.result.success
    /\ finding.result.anomalies_found = 0
    /\ finding.lookups = 0

\* C16: every anomaly in top_anomalies and all_anomalies of a detection has
\* a severity at or above the min_severity the caller gave.
C16_MinSeverityHonoured ==
    (IsDetect /\ finding.result.success) =>
        \A l \in {finding.result.top_anomalies, finding.result.all_anomalies} :
            \A i \in 1..Len(l) :
                Rank(l[i].severity) >= Rank(finding.min_severity)

(***************************************************************************)
(* Properties of FinancialVectorStore, checked under SpecIndex.            *)
(***************************************************************************)
IsAdd == finding.op = "add"
IsSearch == finding.op = "search"
RecordsWithId(collection, id) ==
    {i \in 1..Len(collection) : collection[i].id = id}
\* an add that worked, of an id the collection held with another description
SecondAdd ==
    /\ IsAdd
    /\ finding.env = IndexOk
    /\ \E i \in RecordsWithId(finding.before[finding.collection], finding.id) :
          finding.before[finding.collection][i].document # finding.description

\* C17: after a second add of an id with a different description the
\* collection holds exactly one record of that id, with the second call's
\* description and metadata, and as many records as before the call.
C17_LastWriteWins ==
    SecondAdd =>
        LET stored == collections[finding.collection]
            held == RecordsWithId(stored, finding.id)
        IN  /\ Cardinality(held) = 1
            /\ Count(stored) = Count(finding.before[finding.collection])
            /\ \A i \in held :
                  /\ stored[i].document = finding.description
                  /\ \A k \in DOMAIN finding.metadata :
                        /\ k \in DOMAIN stored[i].metadata
                        /\ stored[i].metadata[k] = finding.metadata[k]

\* C18: every match a search returns has a similarity between 0 and 1.
C18_SimilarityInUnitRange ==
    IsSearch =>
        \A i \in 1..Len(finding.result) :
            /\ finding.result[i].similarity >= 0
            /\ finding.result[i].similarity <= 100

\* C19: a search with n_results = k returns at most k matches, in each of
\* the three collections, with or without a filter.
C19_AtMostNResults ==
    IsSearch => Len(finding.result) <= finding.n_results

(***************************************************************************)
(* The template fast path for the best stocks by return.                  *)
(***************************************************************************)
\* the digit runs of a text that stand as words of their own, by position
IntegerLiterals(text) ==
    {i \in 1..Len(text) :
        /\ IsDigit(CharAt(text, i))
        /\ (i = 1 \/ ~IsWordChar(CharAt(text, i - 1)))
        /\ \E j \in i..Len(text) :
              /\ \A k \in i..j : IsDigit(CharAt(text, k))
              /\ (j = Len(text) \/ ~IsWordChar(CharAt(text, j + 1)))}
LiteralAt(text, i) ==
    LET j == CHOOSE j \in i..Len(text) :
                 /\ \A k \in i..j : IsDigit(CharAt(text, k))
                 /\ (j = Len(text) \/ ~IsDigit(CharAt(text, j + 1)))
    IN  SubSeq(text, i, j)
\* the LIMIT clause the query asks for: its first integer literal, else 10
WantedLimit(text) ==
    IF IntegerLiterals(text) = {} THEN "LIMIT 10\n"
    ELSE "LIMIT "
         \o LiteralAt(text, CHOOSE i \in IntegerLiterals(text) :
                               \A o \in IntegerLiterals(text) : i <= o)
         \o "\n"
\* process_query tried the templates on a data_retrieval query that
\* mentions stocks, top/best/highest and return
AsksBestStocksByReturn ==
    /\ answer.op = "process_query"
    /\ answer.generated.tried_template
    /\ answer.cls.intent = "data_retrieval"
    /\ Contains(Lower(answer.arg), "stock")
    /\ \E w \in {"top", "best", "highest"} : Contains(Lower(answer.arg), w)
    /\ Contains(Lower(answer.arg), "return")

\* C20: on the template path, a data_retrieval query about stocks asking
\* for the top/best/highest by return gets SQL with ORDER BY total_return
\* DESC and LIMIT N, N being the first integer literal of the text and 10
\* when there is none, and no request goes to the remote model.
C20_TemplateTopStocksByReturn ==
    AsksBestStocksByReturn =>
        /\ ~answer.generated.sql.none
        /\ Contains(answer.generated.sql.text, "ORDER BY total_return DESC")
        /\ Contains(answer.generated.sql.text, WantedLimit(answer.arg))
        /\ answer.generated.method = "template"
        /\ ~answer.generated.asked_ai
        /\ answer.generated.remote.sent = <<>>
        /\ RemoteUntouched
C20_Witness ==
    /\ AsksBestStocksByReturn
    /\ answer.arg = "Show me the top 5 stocks by return"
    /\ answer.use_ai
    /\ Contains(answer.generated.sql.text, "LIMIT 5\n")
    /\ answer.result.success


(***************************************************************************)
(* Entity extraction for comparison queries.                               *)
(***************************************************************************)
\* the canonical symbols of the assets a text names
NamedSymbols(text) ==
    {AssetKeywords[k][2] : k \in {k \in 1..Len(AssetKeywords) :
                                     Contains(Lower(text), AssetKeywords[k][1])}}
\* process_query reached the comparison branch of the templates
ComparedAssets ==
    /\ answer.op = "process_query"
    /\ answer.generated.tried_template
    /\ ComparesAssets(answer.arg, answer.cls.intent)

\* C21: for a comparison query the extracted symbols are exactly the
\* canonical symbols of the assets named in the text (as a set, in any
\* order, without duplicates): when two or more assets are named, the
\* IN-list of the comparison statement lists those symbols and nothing else.
C21_ExtractsNamedAssets ==
    (ComparedAssets /\ Cardinality(NamedSymbols(answer.arg)) >= 2) =>
        \E l \in Listings(NamedSymbols(answer.arg)) :
            answer.generated.template = Some(TplCompareAssets(Join("', '", l)))


(***************************************************************************)
(* Coverage of the templates: anomaly queries and stock queries.           *)
(***************************************************************************)
TriedTemplates ==
    /\ answer.op = "process_query"
    /\ answer.generated.tried_template
CouldNotGenerate ==
    /\ ~answer.result.success
    /\ answer.result.error = "Could not generate SQL query"
AsksAnomalies ==
    /\ TriedTemplates
    /\ \/ answer.cls.intent = "anomaly_detection"
       \/ \E w \in {"anomaly", "unusual", "outlier"} :
             Contains(Lower(answer.arg), w)

\* C22: a query whose intent is anomaly_detection or whose text contains
\* 'anomaly', 'unusual' or 'outlier' gets the analytics_market_anomalies
\* template whatever else the text contains, so that process_query with
\* use_ai = False does not fail to generate SQL for it.
C22_AnomalyQueriesGetTemplate ==
    AsksAnomalies =>
        /\ answer.generated.template = Some(TplAnomalies)
        /\ ~answer.use_ai => ~CouldNotGenerate

AsksStocks ==
    /\ TriedTemplates
    /\ answer.cls.intent = "data_retrieval"
    /\ Contains(Lower(answer.arg), "stock")

\* C23: a data_retrieval query whose text contains 'stock' always gets a
\* statement from the templates, also when it asks for the top/best/highest
\* without naming a metric, so that process_query with use_ai = False never
\* answers it with 'Could not generate SQL query'.
C23_StockQueriesGetTemplate ==
    AsksStocks =>
        /\ ~answer.generated.template.none
        /\ ~answer.use_ai => ~CouldNotGenerate


(***************************************************************************)
(* Failures of the local models and of the index.                          *)
(***************************************************************************)
ClassifierFailed ==
    /\ finding.op = "classify"
    /\ finding.pipeline.raises
    /\ Len(finding.candidates) > 0
SentimentFailed ==
    /\ finding.op = "sentiment"
    /\ finding.pipeline.raises
SearchFailed ==
    /\ IsSearch
    /\ (finding.env.embed = "error" \/ finding.env.backend = "error")

\* C24: a failure inside a local model or the index is not raised and gives
\* the neutral default: the classifier answers candidate_labels[0] with
\* confidence 0.0, the sentiment model neutral with low confidence, and a
\* search an empty sequence.
C24_FailuresGiveNeutralDefaults ==
    /\ ClassifierFailed =>
          /\ finding.result.intent = finding.candidates[1]
          /\ finding.result.confidence = 0
    /\ SentimentFailed =>
          /\ finding.result.label = "neutral"
          /\ finding.result.confidence = "low"
    /\ SearchFailed => finding.result = <<>>


(***************************************************************************)
(* generate_insight: the insight text of a successful result.              *)
(***************************************************************************)
InsightSucceeded ==
    /\ answer.op = "generate_insight"
    /\ answer.result.success

\* C25: every successful generate_insight result carries an insight text,
\* the remote model's ai_insight or the canned insight; when use_ai is set
\* and the remote call fails, the canned insight is there.
C25_SuccessCarriesInsight ==
    InsightSucceeded =>
        \/ ~answer.result.ai_insight.none
        \/ ~answer.result.insight.none


(***************************************************************************)
(* _execute_query: the connection of a call.                               *)
(***************************************************************************)
\* an operation whose _execute_query call got a connection
ConnectionOpened ==
    /\ answer.op # "init"
    /\ answer.exec.opened > 0

\* C26: _execute_query opens a connection of its own and closes it on every
\* path on which it got one, whether it returns or raises, a failure to
\* create the cursor included.
C26_ConnectionAlwaysReleased ==
    ConnectionOpened =>
        /\ answer.exec.opened = 1
        /\ answer.exec.closed = answer.exec.opened


(***************************************************************************)
(* The minimum-severity filter of the anomaly search.                      *)
(***************************************************************************)
Ordinal(severity) ==
    CASE severity = "low" -> 0
      [] severity = "medium" -> 1
      [] severity = "high" -> 2
      [] severity = "critical" -> 3
      [] OTHER -> 0
\* the severity of a candidate or of a match; low when it has none
SeverityIn(r) ==
    IF "severity" \in DOMAIN r.metadata THEN r.metadata.severity ELSE "low"
\* a search of the anomalies with a minimum severity of the mapping, which
\* the index answered
FilteredAnomalySearch ==
    /\ IsSearch
    /\ finding.collection = "anomalies"
    /\ finding.filter # <<None>>
    /\ finding.filter[1].text \in {"low", "medium", "high", "critical"}
    /\ finding.env.backend = "ok"
    /\ finding.n_results > 0
\* the positions of the candidates that pass the minimum, in their order
RECURSIVE Passing(_, _, _)
Passing(candidates, minimum, i) ==
    IF i > Len(candidates) THEN <<>>
    ELSE IF Ordinal(SeverityIn(candidates[i])) >= Ordinal(minimum)
    THEN <<i>> \o Passing(candidates, minimum, i + 1)
    ELSE Passing(candidates, minimum, i + 1)

\* C27: with a minimum severity the anomaly search asks the index for 2k
\* candidates and returns, in the index's order, the first k of them whose
\* severity (low when there is none) is at or above the minimum on the scale
\* low 0, medium 1, high 2, critical 3; every match returned passes.
C27_SeverityFilterOverfetches ==
    FilteredAnomalySearch =>
        /\ \E c \in Query(finding.store.anomalies,
                          GenerateEmbeddings(finding.query, finding.env),
                          2 * finding.n_results, NoWhere) :
              LET pass == Passing(c, finding.filter[1].text, 1)
                  k == IF Len(pass) < finding.n_results THEN Len(pass)
                       ELSE finding.n_results
              IN  /\ Len(finding.result) = k
                  /\ \A j \in 1..k : finding.result[j].id = c[pass[j]].id
        /\ \A j \in 1..Len(finding.result) :
              Ordinal(SeverityIn(finding.result[j])) >= Ordinal(finding.filter[1].text)
C27_Witness ==
    /\ FilteredAnomalySearch
    /\ finding.filter[1].text = "medium"
    /\ Len(finding.result) = finding.n_results
    /\ \E i \in 1..Len(finding.store.anomalies) :
          /\ SeverityIn(finding.store.anomalies[i]) = "low"
          /\ \A j \in 1..Len(finding.result) :
                finding.result[j].id # finding.store.anomalies[i].id


(***************************************************************************)
(* The usage state after a call that generated nothing.                    *)
(***************************************************************************)
\* the latest generate call was served from the cache or returned nothing
NothingGenerated ==
    /\ IsGenerate
    /\ (last.cache_hit \/ last.result.none)

\* C29: a generate call that does not return freshly generated text (a
\* cache hit, a rejection by a cap, nothing after a timeout, a transport
\* error or a malformed 2xx response) leaves requests_today,
\* total_requests_month and last_request_time as they were before the call.
C29_NoTextLeavesUsageUnchanged ==
    NothingGenerated =>
        /\ requests_today = last.pre.requests_today
        /\ total_requests_month = last.pre.total_requests_month
        /\ last_request_time = last.pre.last_request_time


(***************************************************************************)
(* The templates against _validate_sql.                                    *)
(***************************************************************************)
\* process_query got its statement from the templates
TemplateProduced ==
    /\ TriedTemplates
    /\ ~answer.generated.template.none
    /\ answer.generated.method = "template"

\* C30: every statement the templates produce, for every query text and
\* intent, is one _validate_sql accepts: it begins with select once trimmed
\* and holds no denylisted keyword, the comparison statement with its
\* IN-list of tokens taken from the user's text included.
C30_TemplatesPassGuard ==
    TemplateProduced =>
        /\ BeginsWithSelect(answer.generated.template.text)
        /\ ~ContainsDenylistedWord(answer.generated.template.text)
        /\ ~StartsWith(answer.verdict.error, "Dangerous keyword")
        /\ answer.verdict.error # "Only SELECT queries are allowed"


(***************************************************************************)
(* The caps under concurrent callers.                                      *)
(***************************************************************************)
IssuedToday == issued.before + Len(issued.times)
\* at most one of the handlers has called generate_text so far
OneCallerOnly ==
    \E c \in Callers : \A o \in Callers \ {c} : callers[o].calls = 0

\* C28: the caps are kept for one logical caller only: as long as a single
\* handler calls generate_text the counters stay within the limits, while
\* two handlers interleaving their calls can both pass the check at
\* requests_today = DailyLimit - 1 and both send a request, so that more
\* than DailyLimit requests are counted or sent on one date (the witness).
C28_CapsHoldForOneCaller ==
    OneCallerOnly =>
        /\ requests_today <= DailyLimit
        /\ total_requests_month <= MonthlyLimit
C28_Witness ==
    /\ \A c \in Callers :
          /\ callers[c].calls = 1
          /\ callers[c].seen = DailyLimit - 1
          /\ callers[c].pc = "done"
    /\ Len(issued.times) = 2
    /\ issued.times[2] - issued.times[1] < MinSpacingMs
    /\ IssuedToday > DailyLimit
    /\ requests_today > DailyLimit

====
